---- MODULE Spec2Model ----
(***************************************************************************)
(* LLM call telemetry and context-budget control of openclaw:              *)
(*   - the usage logger (createLlmUsageLogger, wrapStreamFn, recordUsage), *)
(*     its loop detector and its queued writer pool;                       *)
(*   - the message compactor (compactMessages).                            *)
(* Optional JavaScript values are sequences of length <= 1: None is        *)
(* undefined, Some(v) is the value v.  Text is a sequence of UTF-16 code   *)
(* units.                                                                  *)
(***************************************************************************)
EXTENDS Integers, Sequences, FiniteSets, TLC

None == <<>>
Some(v) == <<v>>

Put(m, k, v) == [x \in (DOMAIN m) \cup {k} |-> IF x = k THEN v ELSE m[x]]
EmptyMap == [x \in {} |-> None]

Max(a, b) == IF a >= b THEN a ELSE b
Min(a, b) == IF a <= b THEN a ELSE b

\* Text of n code units whose i-th unit depends on i, so that a prefix, a
\* suffix and a middle part of the same length are different texts.
Text(n) == [i \in 1..n |-> 97 + (i % 26)]

(***************************************************************************)
(* Message values.  k is "nullish" for null/undefined, "prim" for a        *)
(* non-object value such as a number, "obj" for an object.                 *)
(* content.t is "undef", "str", "arr" or "other" (a number, an object).    *)
(* A block's text is Some(text) when it is a string, None otherwise.       *)
(***************************************************************************)
CUndef == [t |-> "undef", s |-> <<>>, blocks |-> <<>>]
CStr(s) == [t |-> "str", s |-> s, blocks |-> <<>>]
CArr(bs) == [t |-> "arr", s |-> <<>>, blocks |-> bs]
COther == [t |-> "other", s |-> <<>>, blocks |-> <<>>]

NullBlock == [k |-> "nullish", type |-> None, text |-> None]
PrimBlock == [k |-> "prim", type |-> None, text |-> None]
TextBlock(s) == [k |-> "obj", type |-> Some("text"), text |-> Some(s)]
ImageBlock == [k |-> "obj", type |-> Some("image"), text |-> None]

NullMsg == [k |-> "nullish", role |-> None, content |-> CUndef]
PrimMsg == [k |-> "prim", role |-> None, content |-> CUndef]
Msg(role, content) == [k |-> "obj", role |-> Some(role), content |-> content]

(***************************************************************************)
(* Token estimation and message size helpers.                              *)
(***************************************************************************)
\* A variant that rounds down.
EstimateTokensFloor(chars) == chars \div 4

\* Math.ceil(chars / 4)
EstimateTokens(chars) == IF chars % 4 = 0 THEN chars \div 4 ELSE (chars \div 4) + 1

\* Reading a property of null or undefined raises a TypeError.
BlockThrows(b) == b.k = "nullish"

BlockChars(b) == IF b.text /= None THEN Len(b.text[1]) ELSE 0

RECURSIVE SumBlockChars(_)
SumBlockChars(bs) ==
    IF bs = <<>> THEN 0 ELSE BlockChars(Head(bs)) + SumBlockChars(Tail(bs))

\* countMessageChars raises (m.content of null, b.text of null) or returns a count.
CountThrows(msg) ==
    \/ msg.k = "nullish"
    \/ /\ msg.content.t = "arr"
       /\ \E i \in 1..Len(msg.content.blocks) : BlockThrows(msg.content.blocks[i])

CountMessageChars(msg) ==
    CASE msg.content.t = "str" -> Len(msg.content.s)
      [] msg.content.t = "arr" -> SumBlockChars(msg.content.blocks)
      [] OTHER -> 0

RECURSIVE SumChars(_)
SumChars(ms) == IF ms = <<>> THEN 0 ELSE CountMessageChars(Head(ms)) + SumChars(Tail(ms))

RECURSIVE MaxChars(_)
MaxChars(ms) ==
    IF ms = <<>> THEN 0 ELSE Max(CountMessageChars(Head(ms)), MaxChars(Tail(ms)))

\* analyzeMessages: the loop stops at the first message whose count raises.
AnalyzeMessages(messages) ==
    IF \E i \in 1..Len(messages) : CountThrows(messages[i])
    THEN [threw |-> TRUE, totalTextChars |-> 0, maxMessageTextChars |-> 0]
    ELSE [threw |-> FALSE,
          totalTextChars |-> SumChars(messages),
          maxMessageTextChars |-> MaxChars(messages)]

(***************************************************************************)
(* Loop detection.                                                         *)
(***************************************************************************)
LOOP_STREAK_THRESHOLD == 3

LoopWarningText(sessionKey, messageCount, totalChars, streak) ==
    [session |-> sessionKey, messages |-> messageCount, chars |-> totalChars,
     times |-> streak]

\* A detector that warns on the first crossing of the threshold only.
CheckAndUpdateLoopTrackerFirstCrossing(tracker, sessionKey, messageCount, totalChars) ==
    IF /\ sessionKey \in DOMAIN tracker
       /\ tracker[sessionKey].messageCount = messageCount
       /\ tracker[sessionKey].totalChars = totalChars
    THEN LET streak == tracker[sessionKey].streak + 1
         IN  [tracker |-> [tracker EXCEPT ![sessionKey].streak = streak],
              warning |-> IF streak = LOOP_STREAK_THRESHOLD
                          THEN Some(LoopWarningText(sessionKey, messageCount,
                                                    totalChars, streak))
                          ELSE None]
    ELSE [tracker |-> Put(tracker, sessionKey,
                          [messageCount |-> messageCount, totalChars |-> totalChars,
                           streak |-> 1]),
          warning |-> None]

\* A detector that compares the message count only.
CheckAndUpdateLoopTrackerCountOnly(tracker, sessionKey, messageCount, totalChars) ==
    IF /\ sessionKey \in DOMAIN tracker
       /\ tracker[sessionKey].messageCount = messageCount
    THEN LET streak == tracker[sessionKey].streak + 1
         IN  [tracker |-> [tracker EXCEPT ![sessionKey].streak = streak],
              warning |-> IF streak >= LOOP_STREAK_THRESHOLD
                          THEN Some(LoopWarningText(sessionKey, messageCount,
                                                    totalChars, streak))
                          ELSE None]
    ELSE [tracker |-> Put(tracker, sessionKey,
                          [messageCount |-> messageCount, totalChars |-> totalChars,
                           streak |-> 1]),
          warning |-> None]

\* A detector in which an observation of one key ends the streaks of the
\* other keys.
CheckAndUpdateLoopTrackerEndsOthers(tracker, sessionKey, messageCount, totalChars) ==
    LET others == [k \in DOMAIN tracker |-> [tracker[k] EXCEPT !.streak = 1]]
    IN  IF /\ sessionKey \in DOMAIN tracker
           /\ tracker[sessionKey].messageCount = messageCount
           /\ tracker[sessionKey].totalChars = totalChars
        THEN LET streak == tracker[sessionKey].streak + 1
             IN  [tracker |-> [others EXCEPT ![sessionKey].streak = streak],
                  warning |-> IF streak >= LOOP_STREAK_THRESHOLD
                              THEN Some(LoopWarningText(sessionKey, messageCount,
                                                        totalChars, streak))
                              ELSE None]
        ELSE [tracker |-> Put(others, sessionKey,
                              [messageCount |-> messageCount, totalChars |-> totalChars,
                               streak |-> 1]),
              warning |-> None]

\* The tracker after the observation, and the warning returned (None: undefined).
CheckAndUpdateLoopTracker(tracker, sessionKey, messageCount, totalChars) ==
    IF /\ sessionKey \in DOMAIN tracker
       /\ tracker[sessionKey].messageCount = messageCount
       /\ tracker[sessionKey].totalChars = totalChars
    THEN LET streak == tracker[sessionKey].streak + 1
         IN  [tracker |-> [tracker EXCEPT ![sessionKey].streak = streak],
              warning |-> IF streak >= LOOP_STREAK_THRESHOLD
                          THEN Some(LoopWarningText(sessionKey, messageCount,
                                                    totalChars, streak))
                          ELSE None]
    ELSE [tracker |-> Put(tracker, sessionKey,
                          [messageCount |-> messageCount, totalChars |-> totalChars,
                           streak |-> 1]),
          warning |-> None]

(***************************************************************************)
(* compactMessages.                                                        *)
(***************************************************************************)
\* "\n...[truncated - content exceeded context budget]", with its ellipsis
\* and its dash single code units: 47 code units.
TRUNC_SUFFIX ==
    <<10, 8230, 91, 116, 114, 117, 110, 99, 97, 116, 101, 100, 32, 8212, 32, 99,
      111, 110, 116, 101, 110, 116, 32, 101, 120, 99, 101, 101, 100, 101, 100, 32,
      99, 111, 110, 116, 101, 120, 116, 32, 98, 117, 100, 103, 101, 116, 93>>

\* text.slice(0, end): a negative end counts from the end of the text.
SliceTo(text, end) ==
    LET stop == IF end < 0 THEN Max(Len(text) + end, 0) ELSE Min(end, Len(text))
    IN  SubSeq(text, 1, stop)

\* text.slice(-n): the last n units; slice(-0) is slice(0), the whole sequence.
SliceLast(seq, n) ==
    IF n = 0 \/ n >= Len(seq) THEN seq ELSE SubSeq(seq, Len(seq) - n + 1, Len(seq))

TruncateString(text, limit) ==
    IF Len(text) <= limit
    THEN text
    ELSE SliceTo(text, limit - Len(TRUNC_SUFFIX)) \o TRUNC_SUFFIX

CompactBlock(block, cap) ==
    IF block.k /= "obj" \/ block.text = None
    THEN block
    ELSE IF Len(block.text[1]) <= cap
         THEN block
         ELSE [block EXCEPT !.text = Some(TruncateString(block.text[1], cap))]

CompactContent(content, cap) ==
    CASE content.t = "str" -> CStr(TruncateString(content.s, cap))
      [] content.t = "arr" ->
             CArr([i \in 1..Len(content.blocks) |-> CompactBlock(content.blocks[i], cap)])
      [] OTHER -> content

IsToolResult(msg) ==
    msg.role \in {Some("toolResult"), Some("tool"), Some("function")}

CompactMessage(msg, maxMsgChars, maxToolChars) ==
    IF msg.k /= "obj" \/ msg.content.t = "undef"
    THEN msg
    ELSE [msg EXCEPT !.content =
              CompactContent(msg.content,
                             IF IsToolResult(msg) THEN maxToolChars ELSE maxMsgChars)]

\* JSON.stringify of a content that is not a string, as code units.
JsonEscape(unit) ==
    CASE unit = 10 -> <<92, 110>>
      [] unit = 34 -> <<92, 34>>
      [] unit = 92 -> <<92, 92>>
      [] OTHER -> <<unit>>

RECURSIVE JsonEscapeAll(_)
JsonEscapeAll(text) ==
    IF text = <<>> THEN <<>> ELSE JsonEscape(Head(text)) \o JsonEscapeAll(Tail(text))

JsonString(text) == <<34>> \o JsonEscapeAll(text) \o <<34>>

TypeUnits(type) == IF type = "text" THEN <<116, 101, 120, 116>> ELSE <<105, 109, 97, 103, 101>>

JsonBlock(block) ==
    CASE block.k = "nullish" -> <<110, 117, 108, 108>>
      [] block.k = "prim" -> <<53>>
      [] OTHER ->
         LET type == IF block.type = None THEN <<>>
                     ELSE <<34, 116, 121, 112, 101, 34, 58>> \o JsonString(TypeUnits(block.type[1]))
             text == IF block.text = None THEN <<>>
                     ELSE <<34, 116, 101, 120, 116, 34, 58>> \o JsonString(block.text[1])
             comma == IF type /= <<>> /\ text /= <<>> THEN <<44>> ELSE <<>>
         IN  <<123>> \o type \o comma \o text \o <<125>>

RECURSIVE JsonBlocks(_)
JsonBlocks(blocks) ==
    IF blocks = <<>> THEN <<>>
    ELSE JsonBlock(Head(blocks))
         \o (IF Tail(blocks) = <<>> THEN <<>> ELSE <<44>>)
         \o JsonBlocks(Tail(blocks))

\* typeof m.content === "string" ? m.content : JSON.stringify(m.content);
\* the key of an undefined content is undefined (None).
DedupKey(content) ==
    CASE content.t = "str" -> Some(content.s)
      [] content.t = "arr" -> Some(<<91>> \o JsonBlocks(content.blocks) \o <<93>>)
      [] content.t = "other" -> Some(<<53>>)
      [] OTHER -> None

IsSystem(msg) == msg.k = "obj" /\ msg.role = Some("system")

\* The filter over `seen`: a system message is kept when no system message
\* before it has its key.
Dedupe(msgs) ==
    LET Keep(i) == \/ ~IsSystem(msgs[i])
                   \/ ~\E j \in 1..(i - 1) :
                          IsSystem(msgs[j])
                          /\ DedupKey(msgs[j].content) = DedupKey(msgs[i].content)
        RECURSIVE From(_)
        From(i) == IF i > Len(msgs) THEN <<>>
                   ELSE (IF Keep(i) THEN <<msgs[i]>> ELSE <<>>) \o From(i + 1)
    IN  From(1)

Window(msgs, maxMessages) ==
    IF maxMessages > 0 /\ Len(msgs) > maxMessages
    THEN LET system == SelectSeq(msgs, IsSystem)
             NotSystem(m) == ~IsSystem(m)
             nonSystem == SelectSeq(msgs, NotSystem)
         IN  system \o SliceLast(nonSystem, Max(0, maxMessages - Len(system)))
    ELSE msgs

Option(opt, default) == IF opt = None THEN default ELSE opt[1]

DefaultMaxMessages == 60
DefaultMaxMessageChars == 20000
DefaultMaxToolResultChars == 8000

\* The messages after the truncating map (source lines 489-503).
CompactMapped(messages, options) ==
    [i \in 1..Len(messages) |->
        CompactMessage(messages[i],
                       Option(options.maxMessageChars, DefaultMaxMessageChars),
                       Option(options.maxToolResultChars, DefaultMaxToolResultChars))]

CompactMessages(messages, options) ==
    Window(Dedupe(CompactMapped(messages, options)),
           Option(options.maxMessages, DefaultMaxMessages))

(***************************************************************************)
(* Inputs of the logger: environments, identities, call arguments.         *)
(***************************************************************************)
MUndef == [m |-> "undef", items |-> <<>>]
MNotArr == [m |-> "notarr", items |-> <<>>]
MArr(items) == [m |-> "arr", items |-> items]

NullishContext == [c |-> "nullish", messages |-> MUndef]
Context(mv) == [c |-> "obj", messages |-> mv]

CallArgs(context) == [model |-> "model", context |-> context, options |-> "options"]

\* Array.isArray(x) ? x : []
AsArray(mv) == IF mv.m = "arr" THEN mv.items ELSE <<>>

NoError == [k |-> "none", message |-> ""]
ErrorObject(msg) == [k |-> "Error", message |-> msg]
ErrorString(msg) == [k |-> "string", message |-> msg]
ErrorOther == [k |-> "other", message |-> ""]

Usage(i, o, cr, cw) == [input |-> i, output |-> o, cacheRead |-> cr, cacheWrite |-> cw]

Env(debug, file) == [LLM_USAGE_DEBUG |-> debug, LLM_USAGE_DEBUG_FILE |-> file]

Params(sessionKey, sessionId) ==
    [runId |-> None, sessionId |-> sessionId, sessionKey |-> sessionKey,
     provider |-> Some("openai"), modelId |-> Some("gpt")]

\* parseBooleanValue of the activation switch: true, false or undefined (None).
ParseBooleanValue(v) ==
    CASE v = None -> None
      [] v[1] \in {"1", "true", "yes", "on"} -> Some(TRUE)
      [] v[1] \in {"0", "false", "no", "off"} -> Some(FALSE)
      [] OTHER -> None

\* String.prototype.trim on the file overrides the model draws.
Trim(s) ==
    CASE s = " /a " -> "/a"
      [] s = "   " -> ""
      [] OTHER -> s

\* path.join(resolveStateDir(env), "logs", "llm_usage.ndjson")
DefaultFilePath == "~/.openclaw/logs/llm_usage.ndjson"

\* A configuration that takes an unparsable or unset switch for "on".
ResolveLoggerConfigDefaultOn(env) ==
    LET parsed == ParseBooleanValue(env.LLM_USAGE_DEBUG)
        fileOverride == IF env.LLM_USAGE_DEBUG_FILE = None
                        THEN None
                        ELSE Some(Trim(env.LLM_USAGE_DEBUG_FILE[1]))
    IN  [enabled |-> IF parsed = None THEN TRUE ELSE parsed[1],
         filePath |-> IF fileOverride /= None /\ fileOverride[1] /= ""
                      THEN fileOverride[1]
                      ELSE DefaultFilePath]

ResolveLoggerConfig(env) ==
    LET parsed == ParseBooleanValue(env.LLM_USAGE_DEBUG)
        fileOverride == IF env.LLM_USAGE_DEBUG_FILE = None
                        THEN None
                        ELSE Some(Trim(env.LLM_USAGE_DEBUG_FILE[1]))
    IN  [enabled |-> IF parsed = None THEN FALSE ELSE parsed[1],
         filePath |-> IF fileOverride /= None /\ fileOverride[1] /= ""
                      THEN fileOverride[1]
                      ELSE DefaultFilePath]

\* A label that prefers the session id to the session key.
SessionLabelIdFirst(params) ==
    IF params.sessionId /= None THEN params.sessionId[1]
    ELSE IF params.sessionKey /= None THEN params.sessionKey[1]
    ELSE "unknown"

\* params.sessionKey ?? params.sessionId ?? "unknown"
SessionLabel(params) ==
    IF params.sessionKey /= None THEN params.sessionKey[1]
    ELSE IF params.sessionId /= None THEN params.sessionId[1]
    ELSE "unknown"

\* JSON.stringify drops the keys whose value is undefined.
SafeJsonStringify(event) ==
    [key \in {x \in DOMAIN event : event[x] /= None} |-> event[key][1]]

(***************************************************************************)
(* State.                                                                  *)
(*   writers      the writer pool: file path -> [filePath, queue]          *)
(*   files        the log files: file path -> lines appended so far        *)
(*   loopTracker  session label -> [messageCount, totalChars, streak]      *)
(*   loggers      the logger instances created so far                      *)
(*   now          the clock read by new Date()                             *)
(*   calls        history: one record per invocation of a wrapped function *)
(*   issued       history: the wrapped invocations and recordUsage calls   *)
(*                in the order they were made, with the clock they saw     *)
(*   last         history: what the last operation was given and returned  *)
(*   cpc          the compactor's progress: "idle", "input", "once", "twice"*)
(*   cMessages    the messages given to compactMessages                    *)
(*   cOptions     the options given to compactMessages                     *)
(*   cMapped      `compacted` after the truncating map of the first call   *)
(*   cOnce        compactMessages(cMessages, cOptions)                     *)
(*   cTwice       compactMessages(cOnce, cOptions)                         *)
(***************************************************************************)
VARIABLES writers, files, loopTracker, loggers, now, calls, issued, last,
          cpc, cMessages, cOptions, cMapped, cOnce, cTwice,
          cHeap0, cHeap, cIn, cOut, fpc, fIn, fOut

loggerVars == <<writers, files, loopTracker, loggers, now, calls, issued, last>>
compactVars == <<cpc, cMessages, cOptions, cMapped, cOnce, cTwice,
                 cHeap0, cHeap, cIn, cOut>>
callVars == <<fpc, fIn, fOut>>
vars == <<writers, files, loopTracker, loggers, now, calls, issued, last,
          cpc, cMessages, cOptions, cMapped, cOnce, cTwice,
          cHeap0, cHeap, cIn, cOut, fpc, fIn, fOut>>

LoggerIdle == UNCHANGED loggerVars
CompactorIdle == UNCHANGED compactVars
CallIdle == UNCHANGED callVars
CallInit == fpc = "idle" /\ fIn = <<>> /\ fOut = <<>>

\* getQueuedFileWriter: the pool's writer of the path, created on first use.
GetQueuedFileWriter(pool, filePath) ==
    IF filePath \in DOMAIN pool
    THEN pool
    ELSE Put(pool, filePath, [filePath |-> filePath, queue |-> <<>>])

\* writer.write(line): enqueue, never block, never raise.
WriterWrite(pool, filePath, line) ==
    [pool EXCEPT ![filePath].queue = Append(@, line)]

\* record(event) of a logger: nothing is written when the event has no line.
Record(pool, filePath, event) == WriterWrite(pool, filePath, SafeJsonStringify(event))

LoggerInit ==
    /\ writers = EmptyMap
    /\ files = EmptyMap
    /\ loopTracker = EmptyMap
    /\ loggers = {}
    /\ now = 1
    /\ calls = <<>>
    /\ issued = <<>>
    /\ last = [op |-> "none"]

(***************************************************************************)
(* createLlmUsageLogger.                                                   *)
(***************************************************************************)
Logger(filePath, params) ==
    [filePath |-> filePath, sessionLabel |-> SessionLabel(params), base |-> params]

CreateLlmUsageLogger(env, params) ==
    LET cfg == ResolveLoggerConfig(env)
        lg == Logger(cfg.filePath, params)
    IN  IF ~cfg.enabled
        THEN /\ last' = [op |-> "create", debug |-> env.LLM_USAGE_DEBUG,
                         result |-> None]
             /\ UNCHANGED <<writers, files, loopTracker, loggers, now, calls, issued>>
        ELSE /\ writers' = GetQueuedFileWriter(writers, cfg.filePath)
             /\ loggers' = loggers \cup {lg}
             /\ last' = [op |-> "create", debug |-> env.LLM_USAGE_DEBUG,
                         result |-> Some(lg.sessionLabel)]
             /\ UNCHANGED <<files, loopTracker, now, calls, issued>>

(***************************************************************************)
(* wrapStreamFn: one invocation of the wrapped function.  fnOut is what    *)
(* the wrapped stream function does with the call: "stream" (it returns a  *)
(* stream) or "error" (it raises).                                         *)
(***************************************************************************)
InputEvent(base, ts, messageCount, analysis, loopWarning) ==
    [runId |-> base.runId, sessionId |-> base.sessionId,
     sessionKey |-> base.sessionKey, provider |-> base.provider,
     modelId |-> base.modelId,
     ts |-> Some(ts),
     stage |-> Some(IF loopWarning /= None THEN "loop_break" ELSE "input"),
     messageCount |-> Some(messageCount),
     totalTextChars |-> Some(analysis.totalTextChars),
     maxMessageTextChars |-> Some(analysis.maxMessageTextChars),
     estimatedInputTokens |-> Some(EstimateTokens(analysis.totalTextChars)),
     loopWarning |-> loopWarning]

\* ctx?.messages
ContextMessages(context) == IF context.c = "nullish" THEN MUndef ELSE context.messages

\* The tracker entry of a session and the line queued last for a file, as
\* the stream function finds them when it is invoked (None: there is none).
Found(tracker, pool, lg) ==
    [entry |-> IF lg.sessionLabel \in DOMAIN tracker
               THEN Some(tracker[lg.sessionLabel]) ELSE None,
     queued |-> IF pool[lg.filePath].queue /= <<>>
                THEN Some(pool[lg.filePath].queue[Len(pool[lg.filePath].queue)])
                ELSE None]

\* A wrapper that invokes the stream function before it observes and
\* records: the function finds the tracker and the writers as they were.
AtStreamFnInvokedFirst(lg, tracker, pool, updated, recorded) ==
    Found(tracker, pool, lg)

\* What the stream function finds when the wrapper invokes it (line 384):
\* the tracker after line 359 and the writers after line 371.
AtStreamFn(lg, tracker, pool, updated, recorded) ==
    Found(updated, recorded, lg)

Wrapped(lg, args, fnOut) ==
    LET messages == AsArray(ContextMessages(args.context))
        analysis == AnalyzeMessages(messages)
        messageCount == Len(messages)
        loop == CheckAndUpdateLoopTracker(loopTracker, lg.sessionLabel, messageCount,
                                          analysis.totalTextChars)
        inputEvent == InputEvent(lg.base, now, messageCount, analysis, loop.warning)
        pool == Record(writers, lg.filePath, inputEvent)
    IN  /\ lg \in loggers
        /\ now' = now + 1
        /\ issued' = Append(issued, [filePath |-> lg.filePath, ts |-> now,
                                     op |-> "call"])
        /\ last' = [op |-> "other"]
        /\ UNCHANGED <<files, loggers>>
        /\ IF analysis.threw
           THEN /\ calls' = Append(calls,
                        [lg |-> lg, args |-> args, raised |-> TRUE,
                         fnArgs |-> <<>>, fnOut |-> "none", ret |-> "TypeError",
                         obs |-> None, warning |-> None, lines |-> <<>>,
                         status |-> "raised", usageLines |-> <<>>,
                         atFn |-> None])
                /\ UNCHANGED <<writers, loopTracker>>
           ELSE /\ loopTracker' = loop.tracker
                /\ writers' = pool
                /\ calls' = Append(calls,
                        [lg |-> lg, args |-> args, raised |-> FALSE,
                         fnArgs |-> <<args>>, fnOut |-> fnOut, ret |-> fnOut,
                         obs |-> Some(<<messageCount, analysis.totalTextChars>>),
                         warning |-> loop.warning,
                         lines |-> <<SafeJsonStringify(inputEvent)>>,
                         status |-> IF fnOut = "stream" THEN "running" ELSE "fnthrew",
                         usageLines |-> <<>>,
                         atFn |-> Some(AtStreamFn(lg, loopTracker, writers,
                                                  loop.tracker, pool))])

(***************************************************************************)
(* recordUsage.                                                            *)
(***************************************************************************)
\* error instanceof Error ? error.message : typeof error === "string" ? error : undefined
ErrorMessage(error) == IF error.k \in {"Error", "string"} THEN Some(error.message) ELSE None

UsageField(usage, field) == IF usage = None THEN None ELSE usage[1][field]

UsageEvent(base, ts, messages, usage, error) ==
    LET analysis == AnalyzeMessages(AsArray(messages))
    IN  [runId |-> base.runId, sessionId |-> base.sessionId,
         sessionKey |-> base.sessionKey, provider |-> base.provider,
         modelId |-> base.modelId,
         ts |-> Some(ts),
         stage |-> Some("usage"),
         messageCount |-> Some(IF messages.m = "arr" THEN Len(messages.items) ELSE 0),
         totalTextChars |-> Some(analysis.totalTextChars),
         maxMessageTextChars |-> Some(analysis.maxMessageTextChars),
         estimatedInputTokens |-> Some(EstimateTokens(analysis.totalTextChars)),
         inputTokens |-> UsageField(usage, "input"),
         outputTokens |-> UsageField(usage, "output"),
         cacheReadTokens |-> UsageField(usage, "cacheRead"),
         cacheWriteTokens |-> UsageField(usage, "cacheWrite"),
         error |-> ErrorMessage(error)]

\* What one recordUsage call does: it raises, or it writes one line.
RecordUsageThrows(messages) == AnalyzeMessages(AsArray(messages)).threw

RecordUsageLines(lg, messages, usage, error) ==
    IF RecordUsageThrows(messages)
    THEN <<>>
    ELSE <<SafeJsonStringify(UsageEvent(lg.base, now, messages, usage, error))>>

RecordUsagePool(lg, messages, usage, error) ==
    IF RecordUsageThrows(messages)
    THEN writers
    ELSE Record(writers, lg.filePath, UsageEvent(lg.base, now, messages, usage, error))

\* A recordUsage that also feeds its messages to the loop detector.
RecordUsageObserving(lg, messages, usage, error) ==
    /\ lg \in loggers
    /\ writers' = RecordUsagePool(lg, messages, usage, error)
    /\ now' = now + 1
    /\ issued' = Append(issued, [filePath |-> lg.filePath, ts |-> now, op |-> "usage"])
    /\ last' = [op |-> "usage", lg |-> lg, messages |-> messages, usage |-> usage,
                error |-> error, raised |-> RecordUsageThrows(messages),
                lines |-> RecordUsageLines(lg, messages, usage, error)]
    /\ loopTracker' =
           IF RecordUsageThrows(messages) THEN loopTracker
           ELSE CheckAndUpdateLoopTracker(
                    loopTracker, lg.sessionLabel, Len(AsArray(messages)),
                    AnalyzeMessages(AsArray(messages)).totalTextChars).tracker
    /\ UNCHANGED <<files, loggers, calls>>

RecordUsage(lg, messages, usage, error) ==
    /\ lg \in loggers
    /\ writers' = RecordUsagePool(lg, messages, usage, error)
    /\ now' = now + 1
    /\ issued' = Append(issued, [filePath |-> lg.filePath, ts |-> now, op |-> "usage"])
    /\ last' = [op |-> "usage", lg |-> lg, messages |-> messages, usage |-> usage,
                error |-> error, raised |-> RecordUsageThrows(messages),
                lines |-> RecordUsageLines(lg, messages, usage, error)]
    /\ UNCHANGED <<files, loopTracker, loggers, calls>>

(***************************************************************************)
(* The hosting agent: when a call completes or fails it records the usage  *)
(* of the call; when the call is cancelled or times out it records nothing.*)
(***************************************************************************)
HostCompletes(c, outcome, usage) ==
    LET call == calls[c]
        messages == ContextMessages(call.args.context)
        error == IF outcome = "fail" THEN ErrorObject("boom") ELSE NoError
        given == IF outcome = "ok" THEN usage ELSE None
    IN  /\ \/ call.status = "running"
           \/ call.status \in {"raised", "fnthrew"} /\ outcome = "fail"
        /\ IF outcome \in {"ok", "fail"}
           THEN /\ writers' = RecordUsagePool(call.lg, messages, given, error)
                /\ now' = now + 1
                /\ issued' = Append(issued, [filePath |-> call.lg.filePath,
                                             ts |-> now, op |-> "hostusage"])
                /\ calls' = [calls EXCEPT ![c].status = outcome,
                                          ![c].usageLines =
                                   RecordUsageLines(call.lg, messages, given, error)]
           ELSE /\ calls' = [calls EXCEPT ![c].status = outcome]
                /\ UNCHANGED <<writers, now, issued>>
        /\ last' = [op |-> "other"]
        /\ UNCHANGED <<files, loopTracker, loggers>>

(***************************************************************************)
(* The queued writer appends the head of its queue to its file.            *)
(***************************************************************************)
FileLines(p) == IF p \in DOMAIN files THEN files[p] ELSE <<>>

Drain(p) ==
    /\ p \in DOMAIN writers
    /\ writers[p].queue /= <<>>
    /\ files' = Put(files, p, Append(FileLines(p), Head(writers[p].queue)))
    /\ writers' = [writers EXCEPT ![p].queue = Tail(@)]
    /\ last' = [op |-> "other"]
    /\ UNCHANGED <<loopTracker, loggers, now, calls, issued>>

(***************************************************************************)
(* compactMessages over object identities.  A heap maps the address of an  *)
(* object to its cell: an array cell holds references, a message cell its  *)
(* role and content (a string by value, an array by address), a block cell *)
(* its type and text.  An address is <<g, i, j>>: g is 0 for the objects   *)
(* the caller built and n for those the n-th call allocates; <<g, 0, k>>   *)
(* is an array of messages, <<g, i, 0>> the i-th message, <<g, i, -1>> its *)
(* content array, <<g, i, j>> its j-th block.  `{...x, f: v}` and          *)
(* map/filter/slice/[...] allocate a fresh cell; no statement of           *)
(* compactMessages assigns to a property or an element of an object.       *)
(***************************************************************************)
Ref(a) == [a |-> a, k |-> "obj"]
NullRef == [a |-> <<>>, k |-> "nullish"]
PrimRef == [a |-> <<>>, k |-> "prim"]

ArrCell(items) == [c |-> "arr", items |-> items]
MsgCell(role, t, s, a) == [c |-> "msg", role |-> role, t |-> t, s |-> s, a |-> a]
BlkCell(type, text) == [c |-> "blk", type |-> type, text |-> text]

\* The heap h with the cells of `fresh` allocated (or, where an address of
\* `fresh` exists in h, assigned).
Alloc(h, fresh) ==
    [a \in (DOMAIN h) \cup (DOMAIN fresh) |-> IF a \in DOMAIN fresh THEN fresh[a] ELSE h[a]]

\* The caller's messages array as cells.
StoreRef(value, a) == IF value.k = "obj" THEN Ref(a) ELSE [a |-> <<>>, k |-> value.k]

StoreMessages(msgs) ==
    LET Objects == {i \in 1..Len(msgs) : msgs[i].k = "obj"}
        WithBlocks == {i \in Objects : msgs[i].content.t = "arr"}
        Blocks(i) == msgs[i].content.blocks
        Cells == {<<0, 0, 0>>}
                 \cup {<<0, i, 0>> : i \in Objects}
                 \cup {<<0, i, -1>> : i \in WithBlocks}
                 \cup UNION {{<<0, i, j>> : j \in {n \in 1..Len(Blocks(i)) :
                                                      Blocks(i)[n].k = "obj"}} :
                             i \in WithBlocks}
    IN  [a \in Cells |->
            CASE a = <<0, 0, 0>> ->
                    ArrCell([i \in 1..Len(msgs) |-> StoreRef(msgs[i], <<0, i, 0>>)])
              [] a[2] > 0 /\ a[3] = 0 ->
                    MsgCell(msgs[a[2]].role, msgs[a[2]].content.t, msgs[a[2]].content.s,
                            IF msgs[a[2]].content.t = "arr" THEN <<0, a[2], -1>> ELSE <<>>)
              [] a[2] > 0 /\ a[3] = -1 ->
                    ArrCell([j \in 1..Len(Blocks(a[2])) |->
                                StoreRef(Blocks(a[2])[j], <<0, a[2], j>>)])
              [] OTHER ->
                    BlkCell(Blocks(a[2])[a[3]].type, Blocks(a[2])[a[3]].text)]

\* The values a reference leads to.
LoadBlock(h, ref) ==
    IF ref.k /= "obj" THEN [k |-> ref.k, type |-> None, text |-> None]
    ELSE [k |-> "obj", type |-> h[ref.a].type, text |-> h[ref.a].text]

LoadContent(h, cell) ==
    IF cell.t = "arr"
    THEN CArr([i \in 1..Len(h[cell.a].items) |-> LoadBlock(h, h[cell.a].items[i])])
    ELSE [t |-> cell.t, s |-> cell.s, blocks |-> <<>>]

LoadMessage(h, ref) ==
    IF ref.k /= "obj" THEN [k |-> ref.k, role |-> None, content |-> CUndef]
    ELSE [k |-> "obj", role |-> h[ref.a].role, content |-> LoadContent(h, h[ref.a])]

LoadMessages(h, at) == [i \in 1..Len(h[at].items) |-> LoadMessage(h, h[at].items[i])]

\* compactContent's block map on the j-th block of the i-th message: the
\* block is returned as it is, or a fresh `{ ...b, text }` is allocated.
BlockKept(h, ref, cap) ==
    \/ ref.k /= "obj"
    \/ h[ref.a].text = None
    \/ Len(h[ref.a].text[1]) <= cap

HeapCompactBlocks(h, refs, cap, g, i) ==
    LET Fresh == {j \in 1..Len(refs) : ~BlockKept(h, refs[j], cap)}
    IN  [cells |-> [a \in {<<g, i, j>> : j \in Fresh} |->
                       BlkCell(h[refs[a[3]].a].type,
                               Some(TruncateString(h[refs[a[3]].a].text[1], cap)))],
         refs |-> [j \in 1..Len(refs) |->
                      IF j \in Fresh THEN Ref(<<g, i, j>>) ELSE refs[j]]]

NoCells == [a \in {} |-> None]
OneCell(a, cell) == [x \in {a} |-> cell]

\* A variant of the map's callback that assigns the new content to the
\* message it was given instead of building `{ ...m, content: newContent }`.
HeapCompactMessageInPlace(h, ref, maxMsgChars, maxToolChars, g, i) ==
    IF ref.k /= "obj" \/ h[ref.a].t \in {"undef", "other"}
    THEN [cells |-> NoCells, ref |-> ref]
    ELSE LET m == h[ref.a]
             cap == IF m.role \in {Some("toolResult"), Some("tool"), Some("function")}
                    THEN maxToolChars ELSE maxMsgChars
         IN  IF m.t = "str"
             THEN [cells |-> OneCell(ref.a, [m EXCEPT !.s = TruncateString(m.s, cap)]),
                   ref |-> ref]
             ELSE LET bs == HeapCompactBlocks(h, h[m.a].items, cap, g, i)
                  IN  [cells |-> Alloc(Alloc(bs.cells, OneCell(<<g, i, -1>>, ArrCell(bs.refs))),
                                       OneCell(ref.a, [m EXCEPT !.a = <<g, i, -1>>])),
                       ref |-> ref]

\* The callback of messages.map on the i-th message (source lines 489-503):
\* the cells it allocates and the reference it returns.
HeapCompactMessage(h, ref, maxMsgChars, maxToolChars, g, i) ==
    IF ref.k /= "obj" \/ h[ref.a].t = "undef"
    THEN [cells |-> NoCells, ref |-> ref]
    ELSE LET m == h[ref.a]
             cap == IF m.role \in {Some("toolResult"), Some("tool"), Some("function")}
                    THEN maxToolChars ELSE maxMsgChars
         IN  CASE m.t = "str" ->
                    LET newContent == TruncateString(m.s, cap)
                    IN  IF newContent = m.s THEN [cells |-> NoCells, ref |-> ref]
                        ELSE [cells |-> OneCell(<<g, i, 0>>,
                                                MsgCell(m.role, "str", newContent, <<>>)),
                              ref |-> Ref(<<g, i, 0>>)]
                [] m.t = "arr" ->
                    \* content.map returns a new array, never m.content itself
                    LET bs == HeapCompactBlocks(h, h[m.a].items, cap, g, i)
                    IN  [cells |-> Alloc(Alloc(bs.cells,
                                               OneCell(<<g, i, -1>>, ArrCell(bs.refs))),
                                         OneCell(<<g, i, 0>>,
                                                 MsgCell(m.role, "arr", <<>>, <<g, i, -1>>))),
                         ref |-> Ref(<<g, i, 0>>)]
                [] OTHER -> [cells |-> NoCells, ref |-> ref]

\* messages.map: the heap after it and the references of the new array.
HeapCompactEach(h, refs, maxMsgChars, maxToolChars, g) ==
    LET Mapped(i) == HeapCompactMessage(h, refs[i], maxMsgChars, maxToolChars, g, i)
        Fresh == UNION {DOMAIN Mapped(i).cells : i \in 1..Len(refs)}
    IN  [heap |-> [a \in (DOMAIN h) \cup Fresh |->
                      IF a \in Fresh
                      THEN Mapped(CHOOSE i \in 1..Len(refs) : a \in DOMAIN Mapped(i).cells).cells[a]
                      ELSE h[a]],
         refs |-> [i \in 1..Len(refs) |-> Mapped(i).ref]]

\* The filter over `seen`, on references.
HeapDedupe(h, refs) ==
    LET IsSys(i) == refs[i].k = "obj" /\ h[refs[i].a].role = Some("system")
        Key(i) == DedupKey(LoadMessage(h, refs[i]).content)
        Keep(i) == ~IsSys(i) \/ ~\E j \in 1..(i - 1) : IsSys(j) /\ Key(j) = Key(i)
        RECURSIVE From(_)
        From(i) == IF i > Len(refs) THEN <<>>
                   ELSE (IF Keep(i) THEN <<refs[i]>> ELSE <<>>) \o From(i + 1)
    IN  From(1)

\* The g-th call of compactMessages: the heap it leaves and the address of
\* the array it returns.
HeapCompactMessages(h, at, options, g) ==
    LET mapped == HeapCompactEach(h, h[at].items,
                                  Option(options.maxMessageChars, DefaultMaxMessageChars),
                                  Option(options.maxToolResultChars, DefaultMaxToolResultChars),
                                  g)
        deduped == HeapDedupe(mapped.heap, mapped.refs)
        maxMessages == Option(options.maxMessages, DefaultMaxMessages)
        IsSysRef(ref) == ref.k = "obj" /\ mapped.heap[ref.a].role = Some("system")
        NotSysRef(ref) == ~IsSysRef(ref)
        system == SelectSeq(deduped, IsSysRef)
        nonSystem == SelectSeq(deduped, NotSysRef)
        tail == SliceLast(nonSystem, Max(0, maxMessages - Len(system)))
        arrays == <<ArrCell(mapped.refs), ArrCell(deduped), ArrCell(system),
                    ArrCell(nonSystem), ArrCell(tail), ArrCell(system \o tail)>>
        windowed == maxMessages > 0 /\ Len(deduped) > maxMessages
        count == IF windowed THEN 6 ELSE 2
    IN  [heap |-> Alloc(mapped.heap, [a \in {<<g, 0, n>> : n \in 1..count} |-> arrays[a[3]]]),
         at |-> <<g, 0, count>>]

(***************************************************************************)
(* limitHistoryTurns.  A message is [role, id]; positions are counted from *)
(* 1, so the source's index i is position i + 1 here and                   *)
(* messages.slice(i) is the messages from position i + 1 on.               *)
(***************************************************************************)
AgentMessage(role, id) == [role |-> role, id |-> id]

\* messages.slice(start), start a source index between 0 and the length.
SliceFrom(messages, start) == SubSeq(messages, start + 1, Len(messages))

\* Variants of the scan: one that cuts as soon as `limit` user messages are
\* counted, one that cuts just after the user message it stops at, and one
\* that has no early return for an absent or zero limit.
RECURSIVE LimitScanEarly(_, _, _, _, _)
LimitScanEarly(messages, limit, i, userCount, lastUserIndex) ==
    IF i < 0 THEN messages
    ELSE IF messages[i + 1].role = "user"
         THEN IF userCount + 1 >= limit
              THEN SliceFrom(messages, lastUserIndex)
              ELSE LimitScanEarly(messages, limit, i - 1, userCount + 1, i)
         ELSE LimitScanEarly(messages, limit, i - 1, userCount, lastUserIndex)

LimitHistoryTurnsEarly(messages, limit) ==
    IF limit = None \/ limit[1] <= 0 \/ Len(messages) = 0
    THEN messages
    ELSE LimitScanEarly(messages, limit[1], Len(messages) - 1, 0, Len(messages))

RECURSIVE LimitScanAfter(_, _, _, _, _)
LimitScanAfter(messages, limit, i, userCount, lastUserIndex) ==
    IF i < 0 THEN messages
    ELSE IF messages[i + 1].role = "user"
         THEN IF userCount + 1 > limit
              THEN SliceFrom(messages, Min(lastUserIndex + 1, Len(messages)))
              ELSE LimitScanAfter(messages, limit, i - 1, userCount + 1, i)
         ELSE LimitScanAfter(messages, limit, i - 1, userCount, lastUserIndex)

LimitHistoryTurnsAfter(messages, limit) ==
    IF limit = None \/ limit[1] <= 0 \/ Len(messages) = 0
    THEN messages
    ELSE LimitScanAfter(messages, limit[1], Len(messages) - 1, 0, Len(messages))

\* The loop of limitHistoryTurns from index i down (source lines 26-34).
RECURSIVE LimitScan(_, _, _, _, _)
LimitScan(messages, limit, i, userCount, lastUserIndex) ==
    IF i < 0 THEN messages
    ELSE IF messages[i + 1].role = "user"
         THEN IF userCount + 1 > limit
              THEN SliceFrom(messages, lastUserIndex)
              ELSE LimitScan(messages, limit, i - 1, userCount + 1, i)
         ELSE LimitScan(messages, limit, i - 1, userCount, lastUserIndex)

LimitHistoryTurnsNoGuard(messages, limit) ==
    LimitScan(messages, IF limit = None THEN 0 ELSE limit[1],
              Len(messages) - 1, 0, Len(messages))

\* limit is None for undefined, Some(n) for a number.
LimitHistoryTurns(messages, limit) ==
    IF limit = None \/ limit[1] = 0 \/ limit[1] <= 0 \/ Len(messages) = 0
    THEN messages
    ELSE LimitScan(messages, limit[1], Len(messages) - 1, 0, Len(messages))

(***************************************************************************)
(* getHistoryLimitFromSessionKey and resolveEffectiveHistoryLimit.  Session *)
(* keys, identifiers and environment values are sequences of code units.    *)
(***************************************************************************)
Colon == 58
Digits == 48..57
Whitespace == {9, 10, 13, 32}

AGENT == <<97, 103, 101, 110, 116>>
DM == <<100, 109>>
DIRECT == <<100, 105, 114, 101, 99, 116>>
CHANNEL == <<99, 104, 97, 110, 110, 101, 108>>
GROUP == <<103, 114, 111, 117, 112>>
THREAD == <<116, 104, 114, 101, 97, 100>>
TOPIC == <<116, 111, 112, 105, 99>>

\* String.prototype.toLowerCase on the letters A-Z.
ToLowerCase(units) ==
    [i \in 1..Len(units) |-> IF units[i] \in 65..90 THEN units[i] + 32 ELSE units[i]]

\* value.split(":")
RECURSIVE SplitColon(_)
SplitColon(units) ==
    IF \A i \in 1..Len(units) : units[i] /= Colon
    THEN <<units>>
    ELSE LET i == CHOOSE j \in 1..Len(units) :
                      units[j] = Colon /\ \A k \in 1..(j - 1) : units[k] /= Colon
         IN  <<SubSeq(units, 1, i - 1)>> \o SplitColon(SubSeq(units, i + 1, Len(units)))

\* .filter(Boolean) on strings: the empty ones go.
NonEmpty(units) == units /= <<>>

\* parts.join(":")
RECURSIVE JoinColon(_)
JoinColon(parts) ==
    IF parts = <<>> THEN <<>>
    ELSE IF Len(parts) = 1 THEN parts[1]
    ELSE parts[1] \o <<Colon>> \o JoinColon(Tail(parts))

\* THREAD_SUFFIX_REGEX = /^(.*)(?::(?:thread|topic):\d+)$/i : the position
\* where the suffix ":thread:<digits>" or ":topic:<digits>" starts in value,
\* 0 when the expression does not match.  `.` matches no line terminator.
ThreadSuffixStart(value) ==
    LET Starts == {i \in 1..Len(value) :
                     /\ value[i] = Colon
                     /\ \A k \in 1..(i - 1) : value[k] \notin {10, 13}
                     /\ \E w \in {THREAD, TOPIC} :
                            LET j == i + Len(w) + 1
                            IN  /\ j < Len(value)
                                /\ ToLowerCase(SubSeq(value, i + 1, j - 1)) = w
                                /\ value[j] = Colon
                                /\ \A k \in (j + 1)..Len(value) : value[k] \in Digits}
    IN  IF Starts = {} THEN 0 ELSE CHOOSE i \in Starts : TRUE

\* A lookup that keeps the thread or topic suffix on the identifier.
KeepThreadSuffix(value) == value

StripThreadSuffix(value) ==
    IF ThreadSuffixStart(value) = 0 THEN value
    ELSE SubSeq(value, 1, ThreadSuffixStart(value) - 1)

\* A provider's entry under config.channels: an object with optional
\* historyLimit, dmHistoryLimit and dms, or a value that is not one.
ProviderEntry(historyLimit, dmHistoryLimit, dms) ==
    [k |-> "obj", historyLimit |-> historyLimit, dmHistoryLimit |-> dmHistoryLimit,
     dms |-> dms]
NotAnEntry == [k |-> "other", historyLimit |-> None, dmHistoryLimit |-> None, dms |-> None]

\* resolveProviderConfig: None for undefined.
ResolveProviderConfig(cfg, providerId) ==
    IF cfg.channels = None THEN None
    ELSE IF providerId \notin DOMAIN cfg.channels[1] THEN None
    ELSE IF cfg.channels[1][providerId].k /= "obj" THEN None
    ELSE Some(cfg.channels[1][providerId])

\* providerConfig.dms?.[userId]?.historyLimit
DmOverride(providerConfig, userId) ==
    IF providerConfig.dms = None THEN None
    ELSE IF userId \notin DOMAIN providerConfig.dms[1] THEN None
    ELSE providerConfig.dms[1][userId].historyLimit

\* sessionKey and config are None for undefined; the result is None for
\* undefined, Some(n) for a number.
GetHistoryLimitFromSessionKey(sessionKey, config) ==
    IF sessionKey = None \/ sessionKey = Some(<<>>) \/ config = None THEN None
    ELSE
    LET parts == SelectSeq(SplitColon(sessionKey[1]), NonEmpty)
        providerParts == IF Len(parts) >= 3 /\ parts[1] = AGENT
                         THEN SubSeq(parts, 3, Len(parts)) ELSE parts
    IN  IF providerParts = <<>> THEN None
        ELSE
        LET provider == ToLowerCase(providerParts[1])
            kind == IF Len(providerParts) >= 2 THEN Some(ToLowerCase(providerParts[2]))
                    ELSE None
            userIdRaw == JoinColon(SubSeq(providerParts, 3, Len(providerParts)))
            userId == StripThreadSuffix(userIdRaw)
            providerConfig == ResolveProviderConfig(config[1], provider)
        IN  IF providerConfig = None THEN None
            ELSE IF kind \in {Some(DM), Some(DIRECT)}
                 THEN IF userId /= <<>> /\ DmOverride(providerConfig[1], userId) /= None
                      THEN DmOverride(providerConfig[1], userId)
                      ELSE providerConfig[1].dmHistoryLimit
            ELSE IF kind \in {Some(CHANNEL), Some(GROUP)}
                 THEN providerConfig[1].historyLimit
            ELSE None

\* String.prototype.trim
RECURSIVE TrimStart(_)
TrimStart(units) ==
    IF units /= <<>> /\ Head(units) \in Whitespace THEN TrimStart(Tail(units)) ELSE units

RECURSIVE TrimEnd(_)
TrimEnd(units) ==
    IF units /= <<>> /\ units[Len(units)] \in Whitespace
    THEN TrimEnd(SubSeq(units, 1, Len(units) - 1)) ELSE units

TrimUnits(units) == TrimEnd(TrimStart(units))

\* Number.parseInt(text, 10): leading white space is skipped, a sign is
\* read, then the longest run of digits; what follows the digits is
\* ignored.  None is NaN.
RECURSIVE DigitsPrefix(_)
DigitsPrefix(units) ==
    IF units /= <<>> /\ Head(units) \in Digits
    THEN <<Head(units)>> \o DigitsPrefix(Tail(units)) ELSE <<>>

RECURSIVE DigitsValue(_)
DigitsValue(digits) ==
    IF digits = <<>> THEN 0
    ELSE 10 * DigitsValue(SubSeq(digits, 1, Len(digits) - 1)) + (digits[Len(digits)] - 48)

ParseInt(text) ==
    LET body == TrimStart(text)
        signed == body /= <<>> /\ Head(body) \in {43, 45}
        digits == DigitsPrefix(IF signed THEN Tail(body) ELSE body)
    IN  IF digits = <<>> THEN None
        ELSE IF signed /\ Head(body) = 45 THEN Some(0 - DigitsValue(digits))
        ELSE Some(DigitsValue(digits))

\* env is process.env.LLM_MAX_HISTORY_TURNS, None when it is not set.
ResolveEffectiveHistoryLimit(sessionKey, config, env) ==
    LET configLimit == GetHistoryLimitFromSessionKey(sessionKey, config)
        envRaw == IF env = None THEN None ELSE Some(TrimUnits(env[1]))
        envLimit == IF envRaw = None \/ envRaw = Some(<<>>) THEN None ELSE ParseInt(envRaw[1])
    IN  IF envLimit /= None /\ envLimit[1] /= 0 /\ envLimit[1] > 0
        THEN IF configLimit /= None THEN Some(Min(configLimit[1], envLimit[1]))
             ELSE envLimit
        ELSE configLimit

(***************************************************************************)
(* Inputs the specifications draw from.                                    *)
(***************************************************************************)
UserText == Msg("user", CStr(Text(2)))
AssistantBlocks == Msg("assistant", CArr(<<TextBlock(Text(3)), ImageBlock, PrimBlock>>))
BadBlocks == Msg("assistant", CArr(<<TextBlock(Text(3)), NullBlock>>))

DebugValues == {None, Some("1"), Some("false"), Some("maybe")}
FileValues == {None, Some(" /a "), Some("   ")}
Envs == {Env(d, f) : d \in DebugValues, f \in FileValues}
FilePaths == {ResolveLoggerConfig(e).filePath : e \in Envs}
FnOuts == {"stream", "error"}
Outcomes == {"ok", "fail", "cancelled", "timeout"}
SomeUsage == Some(Usage(Some(120), Some(40), None, None))
CacheUsage == Some(Usage(None, None, Some(7), Some(0)))

\* A creation that adds a logger instance is allowed while fewer than
\* MaxLoggers instances exist.
MaxLoggers == 2

RoomForLogger(env, params) ==
    \/ ~ResolveLoggerConfig(env).enabled
    \/ Logger(ResolveLoggerConfig(env).filePath, params) \in loggers
    \/ Cardinality(loggers) < MaxLoggers

CompactOptions(maxMessages, maxMessageChars, maxToolResultChars) ==
    [maxMessages |-> maxMessages, maxMessageChars |-> maxMessageChars,
     maxToolResultChars |-> maxToolResultChars]

CompactorInit ==
    /\ cpc = "idle"
    /\ cMessages = <<>>
    /\ cOptions = CompactOptions(None, None, None)
    /\ cMapped = <<>>
    /\ cOnce = <<>>
    /\ cTwice = <<>>
    /\ cHeap0 = NoCells
    /\ cHeap = NoCells
    /\ cIn = <<>>
    /\ cOut = <<>>

Init == LoggerInit /\ CompactorInit /\ CallInit

(***************************************************************************)
(* The system: any interleaving of logger creations, wrapped invocations,  *)
(* recordUsage calls, completions and writer drains.                       *)
(***************************************************************************)
MaxOps == 2

SysEnvs == {Env(None, None), Env(Some("1"), None), Env(Some("1"), Some(" /a "))}
SysParams == {Params(Some("s1"), None), Params(None, Some("id1"))}
SysMessages == {MNotArr, MArr(<<UserText, AssistantBlocks>>), MArr(<<UserText, NullMsg>>)}
SysContexts == {NullishContext} \cup {Context(mv) : mv \in SysMessages}
SysUsages == {None, SomeUsage}
SysErrors == {NoError, ErrorObject("boom"), ErrorOther}

Next ==
    \/ \E env \in SysEnvs, params \in SysParams :
           RoomForLogger(env, params) /\ CreateLlmUsageLogger(env, params)
           /\ CompactorIdle /\ CallIdle
    \/ \E lg \in loggers, context \in SysContexts, fnOut \in FnOuts :
           Len(issued) < MaxOps /\ Wrapped(lg, CallArgs(context), fnOut)
           /\ CompactorIdle /\ CallIdle
    \/ \E lg \in loggers, messages \in SysMessages, usage \in SysUsages,
          error \in SysErrors :
           Len(issued) < MaxOps /\ RecordUsage(lg, messages, usage, error)
           /\ CompactorIdle /\ CallIdle
    \/ \E c \in 1..Len(calls), outcome \in Outcomes :
           HostCompletes(c, outcome, SomeUsage) /\ CompactorIdle /\ CallIdle
    \/ \E p \in FilePaths : Drain(p) /\ CompactorIdle /\ CallIdle

Spec == Init /\ [][Next]_vars

(***************************************************************************)
(* The loop detector: two sessions calling wrapped functions again and     *)
(* again.  The writer's drains neither read nor change what the detector   *)
(* reads, and are left out.                                                *)
(***************************************************************************)
MaxLoopCalls == 5

LoopEnv == Env(Some("1"), None)
LoopParams == {Params(Some("s1"), None), Params(None, None)}
LoopContexts == {Context(MArr(<<>>)), Context(MArr(<<PrimMsg>>)),
                 Context(MArr(<<UserText>>))}

NextLoop ==
    \/ \E params \in LoopParams :
           RoomForLogger(LoopEnv, params) /\ CreateLlmUsageLogger(LoopEnv, params)
           /\ CompactorIdle /\ CallIdle
    \/ \E lg \in loggers, context \in LoopContexts :
           Len(calls) < MaxLoopCalls /\ Wrapped(lg, CallArgs(context), "stream")
           /\ CompactorIdle /\ CallIdle

SpecLoop == Init /\ [][NextLoop]_vars

(***************************************************************************)
(* Logger creation under every activation switch and file override, among  *)
(* the operations of the instances already created.                        *)
(***************************************************************************)
MaxCreateOps == 2

CreateParams == {Params(Some("s1"), None), Params(None, Some("id1"))}
CreateContext == Context(MArr(<<UserText>>))

NextCreate ==
    \/ \E env \in Envs, params \in CreateParams :
           RoomForLogger(env, params) /\ CreateLlmUsageLogger(env, params)
           /\ CompactorIdle /\ CallIdle
    \/ \E lg \in loggers :
           Len(issued) < MaxCreateOps /\ Wrapped(lg, CallArgs(CreateContext), "stream")
           /\ CompactorIdle /\ CallIdle
    \/ \E lg \in loggers :
           Len(issued) < MaxCreateOps
           /\ RecordUsage(lg, MArr(<<UserText>>), SomeUsage, NoError)
           /\ CompactorIdle /\ CallIdle
    \/ \E p \in FilePaths : Drain(p) /\ CompactorIdle /\ CallIdle

SpecCreate == Init /\ [][NextCreate]_vars

(***************************************************************************)
(* The compactor: compactMessages applied to drawn messages and options,   *)
(* then applied again to its own output with the same options.             *)
(***************************************************************************)
MaxCompactLen == 3

SysShort == Msg("system", CStr(Text(4)))
SysLong == Msg("system", CStr(Text(60)))
SysLonger == Msg("system", CStr(Text(70)))
UserLong == Msg("user", CStr(Text(60)))
ToolLong == Msg("tool", CStr(Text(55)))
LongBlocks == Msg("assistant", CArr(<<TextBlock(Text(60)), ImageBlock, NullBlock>>))
\* A system message whose content is a block, and one whose content is the
\* text that JSON.stringify gives for that block content.
SysBlocks == Msg("system", CArr(<<TextBlock(Text(2))>>))
SysJson == Msg("system", CStr(DedupKey(SysBlocks.content)[1]))

CompactValues == {SysShort, SysLong, SysLonger, SysBlocks, SysJson, UserText,
                  UserLong, ToolLong, LongBlocks, NullMsg}
CompactInputs == UNION {[1..n -> CompactValues] : n \in 0..MaxCompactLen}
CompactOptionSet ==
    {CompactOptions(n, c, t) : n \in {None, Some(0), Some(1), Some(2)},
                               c \in {None, Some(50), Some(10)},
                               t \in {None, Some(47), Some(0)}}

InitCompact ==
    /\ LoggerInit
    /\ cpc = "input"
    /\ cMessages \in CompactInputs
    /\ cOptions \in CompactOptionSet
    /\ cMapped = <<>>
    /\ cOnce = <<>>
    /\ cTwice = <<>>
    /\ cHeap0 = StoreMessages(cMessages)
    /\ cHeap = cHeap0
    /\ cIn = <<0, 0, 0>>
    /\ cOut = <<>>
    /\ CallInit

Compact ==
    /\ cpc = "input"
    /\ cpc' = "once"
    /\ cMapped' = CompactMapped(cMessages, cOptions)
    /\ cOnce' = CompactMessages(cMessages, cOptions)
    /\ cHeap0' = cHeap
    /\ cHeap' = HeapCompactMessages(cHeap, cIn, cOptions, 1).heap
    /\ cOut' = HeapCompactMessages(cHeap, cIn, cOptions, 1).at
    /\ UNCHANGED <<cMessages, cOptions, cTwice, cIn>>

CompactAgain ==
    /\ cpc = "once"
    /\ cpc' = "twice"
    /\ cTwice' = CompactMessages(cOnce, cOptions)
    /\ cHeap0' = cHeap
    /\ cHeap' = HeapCompactMessages(cHeap, cOut, cOptions, 2).heap
    /\ cIn' = cOut
    /\ cOut' = HeapCompactMessages(cHeap, cOut, cOptions, 2).at
    /\ UNCHANGED <<cMessages, cOptions, cMapped, cOnce>>

NextCompact ==
    \/ Compact /\ LoggerIdle /\ CallIdle
    \/ CompactAgain /\ LoggerIdle /\ CallIdle

SpecCompact == InitCompact /\ [][NextCompact]_vars

(***************************************************************************)
(* The compactor's effect on the objects it is given: compactMessages      *)
(* applied to arrays of up to MaxMutateLen messages that it truncates,     *)
(* dedups and trims, then applied to the array it returned.                *)
(***************************************************************************)
MaxMutateLen == 4

MutateValues == {SysLong, UserText, ToolLong, LongBlocks}
MutateInputs == UNION {[1..n -> MutateValues] : n \in 0..MaxMutateLen}
MutateOptionSet ==
    {CompactOptions(n, c, t) : n \in {None, Some(2)},
                               c \in {None, Some(50)},
                               t \in {Some(47)}}

InitMutate ==
    /\ LoggerInit
    /\ cpc = "input"
    /\ cMessages \in MutateInputs
    /\ cOptions \in MutateOptionSet
    /\ cMapped = <<>>
    /\ cOnce = <<>>
    /\ cTwice = <<>>
    /\ cHeap0 = StoreMessages(cMessages)
    /\ cHeap = cHeap0
    /\ cIn = <<0, 0, 0>>
    /\ cOut = <<>>
    /\ CallInit

SpecMutate == InitMutate /\ [][NextCompact]_vars

(***************************************************************************)
(* The history turn limiter: limitHistoryTurns applied to every sequence   *)
(* of up to MaxTurnsLen messages and every limit up to MaxTurnsLimit.      *)
(***************************************************************************)
MaxTurnsLen == 6
MaxTurnsLimit == 3

TurnRoles == {"user", "assistant", "toolResult"}
TurnInputs ==
    {[i \in 1..n |-> AgentMessage(roles[i], i)] :
        n \in 0..MaxTurnsLen, roles \in [1..MaxTurnsLen -> TurnRoles]}
TurnLimits == {None} \cup {Some(n) : n \in (-1)..MaxTurnsLimit}

InitTurns ==
    /\ LoggerInit
    /\ CompactorInit
    /\ fpc = "input"
    /\ fIn \in [messages : TurnInputs, limit : TurnLimits]
    /\ fOut = <<>>

LimitTurns ==
    /\ fpc = "input"
    /\ fpc' = "done"
    /\ fOut' = LimitHistoryTurns(fIn.messages, fIn.limit)
    /\ UNCHANGED fIn

NextTurns == LimitTurns /\ LoggerIdle /\ CompactorIdle

SpecTurns == InitTurns /\ [][NextTurns]_vars

(***************************************************************************)
(* The effective history limit: resolveEffectiveHistoryLimit for session   *)
(* keys of every conversation kind, configurations with and without the    *)
(* limits, and LLM_MAX_HISTORY_TURNS unset, blank, a number up to           *)
(* MaxCeiling, a number with white space or a sign, and text that is not   *)
(* a number.                                                               *)
(***************************************************************************)
MaxCeiling == 30

TG == <<116, 103>>
TG_UPPER == <<84, 71>>
MAIN == <<109, 97, 105, 110>>
U1 == <<117, 49>>
U2 == <<117, 50>>
ABC == <<97, 98, 99>>

\* The decimal digits of a natural number.
RECURSIVE Decimal(_)
Decimal(n) == IF n < 10 THEN <<48 + n>> ELSE Decimal(n \div 10) \o <<48 + (n % 10)>>

SessionKeys ==
    {None, Some(<<>>), Some(TG),
     Some(JoinColon(<<TG, DM, U1>>)),
     Some(JoinColon(<<AGENT, MAIN, TG, DIRECT, U1, THREAD, Decimal(7)>>)),
     Some(JoinColon(<<TG_UPPER, DM, U2>>)),
     Some(JoinColon(<<TG, GROUP, U1>>)),
     Some(JoinColon(<<ABC, DM, U1>>))}

TgLimits == ProviderEntry(Some(20), Some(50), Some([u \in {U1} |-> [historyLimit |-> Some(5)]]))
TgZero == ProviderEntry(None, Some(0), None)
Configs ==
    {None, Some([channels |-> None]),
     Some([channels |-> Some([c \in {TG} |-> TgLimits])]),
     Some([channels |-> Some([c \in {TG} |-> TgZero])]),
     Some([channels |-> Some([c \in {TG} |-> NotAnEntry])])}

CeilingTexts ==
    {None, Some(<<>>), Some(<<32, 32>>), Some(ABC), Some(Decimal(0))}
    \cup UNION {{Some(Decimal(n)), Some(<<32>> \o Decimal(n) \o <<32>>),
                 Some(<<43>> \o Decimal(n)), Some(<<45>> \o Decimal(n)),
                 Some(Decimal(n) \o ABC)} : n \in 1..MaxCeiling}

InitResolve ==
    /\ LoggerInit
    /\ CompactorInit
    /\ fpc = "input"
    /\ fIn \in [sessionKey : SessionKeys, config : Configs, env : CeilingTexts]
    /\ fOut = <<>>

ResolveLimit ==
    /\ fpc = "input"
    /\ fpc' = "done"
    /\ fOut' = ResolveEffectiveHistoryLimit(fIn.sessionKey, fIn.config, fIn.env)
    /\ UNCHANGED fIn

NextResolve == ResolveLimit /\ LoggerIdle /\ CompactorIdle

SpecResolve == InitResolve /\ [][NextResolve]_vars

(***************************************************************************)
(* The message analyzer: analyzeMessages applied to every collection of    *)
(* up to MaxAnalyzeLen entries, well-formed and malformed.                 *)
(***************************************************************************)
MaxAnalyzeLen == 3

NoContent == Msg("user", CUndef)
OtherContent == Msg("user", COther)
AnalyzeValues == {UserText, UserLong, AssistantBlocks, BadBlocks, NoContent,
                  OtherContent, NullMsg, PrimMsg}
AnalyzeInputs == UNION {[1..n -> AnalyzeValues] : n \in 0..MaxAnalyzeLen}

InitAnalyze ==
    /\ LoggerInit
    /\ CompactorInit
    /\ fpc = "input"
    /\ fIn \in [messages : AnalyzeInputs]
    /\ fOut = <<>>

Analyze ==
    /\ fpc = "input"
    /\ fpc' = "done"
    /\ fOut' = AnalyzeMessages(fIn.messages)
    /\ UNCHANGED fIn

NextAnalyze == Analyze /\ LoggerIdle /\ CompactorIdle

SpecAnalyze == InitAnalyze /\ [][NextAnalyze]_vars

(***************************************************************************)
(* Token estimates in events: one logger whose wrapped function and        *)
(* recordUsage are called with texts of 0 to MaxEstimateChars characters.  *)
(***************************************************************************)
MaxEstimateChars == 9
MaxEstimateOps == 2

EstimateParams == Params(Some("s1"), None)
EstimateMessages == {MArr(<<Msg("user", CStr(Text(n)))>>) : n \in 0..MaxEstimateChars}

NextEstimate ==
    \/ RoomForLogger(LoopEnv, EstimateParams)
       /\ CreateLlmUsageLogger(LoopEnv, EstimateParams)
       /\ CompactorIdle /\ CallIdle
    \/ \E lg \in loggers, messages \in EstimateMessages :
           Len(issued) < MaxEstimateOps
           /\ Wrapped(lg, CallArgs(Context(messages)), "stream")
           /\ CompactorIdle /\ CallIdle
    \/ \E lg \in loggers, messages \in EstimateMessages :
           Len(issued) < MaxEstimateOps
           /\ RecordUsage(lg, messages, SomeUsage, NoError)
           /\ CompactorIdle /\ CallIdle
    \/ \E p \in FilePaths : Drain(p) /\ CompactorIdle /\ CallIdle

SpecEstimate == Init /\ [][NextEstimate]_vars

(***************************************************************************)
(* Properties of the loop detector.                                        *)
(***************************************************************************)
\* The observations fed to the detector for a session key, oldest first.
KeyHistory(key) ==
    LET OfKey(c) == c.lg.sessionLabel = key /\ c.obs /= None
    IN  SelectSeq(calls, OfKey)

\* The observations n, n-1 and n-2 of a history exist and have the same shape.
LastThreeSame(h, n) ==
    /\ n >= 3
    /\ h[n].obs = h[n - 1].obs
    /\ h[n - 1].obs = h[n - 2].obs

\* The number of consecutive observations, ending with the n-th, that have
\* the n-th observation's shape.
RunLength(h, n) ==
    Cardinality({j \in 1..n : \A i \in j..n : h[i].obs = h[n].obs})

SessionLabels == {SessionLabel(p) : p \in LoopParams}

\* C1: the k-th observation of a session key returns a warning if and only if
\* the observations k, k-1 and k-2 of that key have the same
\* (messageCount, totalTextChars), which is when the streak after it is >= 3;
\* so every observation at or above the threshold warns and a differing
\* observation does not.
C1_WarningIffThreeSame ==
    \A key \in SessionLabels :
        LET h == KeyHistory(key)
        IN  /\ \A n \in 1..Len(h) : (h[n].warning /= None) <=> LastThreeSame(h, n)
            /\ Len(h) > 0 =>
                  /\ key \in DOMAIN loopTracker
                  /\ (h[Len(h)].warning /= None)
                        <=> (loopTracker[key].streak >= LOOP_STREAK_THRESHOLD)

\* A key whose third and fourth identical observations warned and whose
\* fifth, differing, observation did not.
C1_Witness ==
    \E key \in SessionLabels :
        LET h == KeyHistory(key)
        IN  /\ Len(h) = 5
            /\ h[1].warning = None /\ h[2].warning = None
            /\ h[3].warning /= None /\ h[4].warning /= None
            /\ h[4].obs /= h[5].obs /\ h[5].warning = None

\* C2: every entry of the loop tracker has streak >= 1, stores the shape of
\* the key's latest observation, and its streak is the number of most recent
\* consecutive observations of the key that have that shape: a differing
\* observation sets it to 1, an identical one adds 1.
C2_StreakCountsRepeats ==
    \A key \in SessionLabels :
        LET h == KeyHistory(key)
        IN  /\ (key \in DOMAIN loopTracker) <=> (Len(h) > 0)
            /\ Len(h) > 0 =>
                  /\ loopTracker[key].streak >= 1
                  /\ <<loopTracker[key].messageCount, loopTracker[key].totalChars>>
                        = h[Len(h)].obs[1]
                  /\ loopTracker[key].streak = RunLength(h, Len(h))

\* A key whose streak went 1, 2, back to 1 on a differing observation, then 2.
C2_Witness ==
    \E key \in SessionLabels :
        LET h == KeyHistory(key)
        IN  /\ Len(h) = 4
            /\ h[1].obs = h[2].obs /\ h[2].obs /= h[3].obs /\ h[3].obs = h[4].obs
            /\ loopTracker[key].streak = 2

(***************************************************************************)
(* Properties of the wrapper, of recordUsage and of the log.               *)
(***************************************************************************)
\* C3: every invocation of a wrapped function, whatever its context holds,
\* invokes the stream function exactly once with the original arguments,
\* returns its result or failure unchanged, and raises nothing of its own.
C3_WrapperTransparent ==
    \A k \in 1..Len(calls) :
        /\ ~calls[k].raised
        /\ Len(calls[k].fnArgs) = 1
        /\ calls[k].fnArgs[1] = calls[k].args
        /\ calls[k].ret = calls[k].fnOut

\* C4: every invocation of a wrapped function writes exactly one event, of
\* stage loop_break with the warning text when the loop detector returned a
\* warning for it and of stage input otherwise; loopWarning is present only
\* in a loop_break event.
C4_OneEventPerInvocation ==
    \A k \in 1..Len(calls) :
        /\ Len(calls[k].lines) = 1
        /\ LET e == calls[k].lines[1]
           IN  /\ (e.stage = "loop_break") <=> (calls[k].warning /= None)
               /\ calls[k].warning = None => e.stage = "input"
               /\ calls[k].warning /= None =>
                     "loopWarning" \in DOMAIN e /\ e.loopWarning = calls[k].warning[1]
               /\ "loopWarning" \in DOMAIN e => e.stage = "loop_break"

AllDrained == \A p \in DOMAIN writers : writers[p].queue = <<>>

Stamps(lines) == [i \in 1..Len(lines) |-> lines[i].ts]

IssuedOn(p) ==
    LET OnPath(op) == op.filePath = p
    IN  SelectSeq(issued, OnPath)

\* C5: once the writers have drained, the log of every path holds exactly one
\* line per wrapped invocation and per recordUsage call made through the
\* loggers of that path, in the order the operations were invoked.
C5_LogHoldsEveryOperationInOrder ==
    AllDrained => \A p \in FilePaths : Stamps(FileLines(p)) = Stamps(IssuedOn(p))

\* C6: a wrapped call that completed, with success or with failure, has its
\* usage event; a call has none only when it was cancelled or timed out.
C6_CompletedCallHasUsageEvent ==
    \A k \in 1..Len(calls) :
        /\ calls[k].status \in {"ok", "fail"} =>
               /\ Len(calls[k].usageLines) = 1
               /\ calls[k].usageLines[1].stage = "usage"
        /\ calls[k].status \in {"cancelled", "timeout"} => calls[k].usageLines = <<>>

Supplied(usage, field) == IF usage = None THEN None ELSE usage[1][field]

FieldIs(e, field, value) ==
    IF value = None THEN field \notin DOMAIN e
    ELSE field \in DOMAIN e /\ e[field] = value[1]

\* C7: recordUsage emits exactly one usage event whose token fields are the
\* supplied totals (absent when not supplied), whose error field is a
\* description string whenever an error is supplied (the message of a thrown
\* fault object), and whose size fields are zero for a messages argument that
\* is empty or not a collection.
C7_UsageEventCarriesTotals ==
    last.op = "usage" =>
        /\ ~last.raised
        /\ Len(last.lines) = 1
        /\ LET e == last.lines[1]
           IN  /\ e.stage = "usage"
               /\ FieldIs(e, "inputTokens", Supplied(last.usage, "input"))
               /\ FieldIs(e, "outputTokens", Supplied(last.usage, "output"))
               /\ FieldIs(e, "cacheReadTokens", Supplied(last.usage, "cacheRead"))
               /\ FieldIs(e, "cacheWriteTokens", Supplied(last.usage, "cacheWrite"))
               /\ last.error.k /= "none" => "error" \in DOMAIN e
               /\ last.error.k = "Error" => e.error = last.error.message
               /\ (last.messages.m /= "arr" \/ last.messages.items = <<>>) =>
                     /\ e.messageCount = 0
                     /\ e.totalTextChars = 0
                     /\ e.maxMessageTextChars = 0

\* C8: creating a logger while the activation switch is unset or false
\* returns no logger and changes nothing: no writer enters the pool, no
\* loop-tracker entry is created or changed, no line is queued or written.
C8_DisabledCreationIsInert ==
    [][(last'.op = "create" /\ last'.debug \in {None, Some("false")})
          => /\ last'.result = None
             /\ UNCHANGED <<writers, files, loopTracker, loggers, now, calls, issued>>
      ]_vars

\* A creation with the switch off, made after instances were created and used.
C8_Witness ==
    /\ last.op = "create"
    /\ last.debug \in {None, Some("false")}
    /\ last.result = None
    /\ loggers /= {}
    /\ DOMAIN loopTracker /= {}
    /\ \E p \in DOMAIN files : files[p] /= <<>>

(***************************************************************************)
(* Properties of the compactor.                                            *)
(***************************************************************************)
\* C9: compactMessages is idempotent: applied to its own output with the
\* same options, whatever the caps, it returns that output.
C9_CompactIdempotent == cpc = "twice" => cTwice = cOnce

GivenCap(msg) ==
    IF msg.role \in {Some("toolResult"), Some("tool"), Some("function")}
    THEN IF cOptions.maxToolResultChars = None THEN 8000
         ELSE cOptions.maxToolResultChars[1]
    ELSE IF cOptions.maxMessageChars = None THEN 20000
         ELSE cOptions.maxMessageChars[1]

TruncatedTo(original, out, cap) ==
    IF Len(original) <= cap
    THEN out = original
    ELSE /\ Len(out) = cap
         /\ out = SubSeq(original, 1, cap - Len(TRUNC_SUFFIX)) \o TRUNC_SUFFIX

\* C10: a text longer than its cap is truncated to exactly the cap: its first
\* (cap - marker length) units followed by the marker; a text within its cap
\* is left unchanged.
C10_TruncatedTextFitsCap ==
    cpc \in {"once", "twice"} =>
        \A i \in 1..Len(cMessages) :
            LET m == cMessages[i]
                out == cMapped[i]
            IN  /\ (m.k = "obj" /\ m.content.t = "str") =>
                       TruncatedTo(m.content.s, out.content.s, GivenCap(m))
                /\ (m.k = "obj" /\ m.content.t = "arr") =>
                       \A b \in 1..Len(m.content.blocks) :
                           m.content.blocks[b].text /= None =>
                               TruncatedTo(m.content.blocks[b].text[1],
                                           out.content.blocks[b].text[1], GivenCap(m))

\* The last n elements of a sequence (all of it when n exceeds its length,
\* none of it when n is 0).
TakeLast(seq, n) == SubSeq(seq, Len(seq) - Min(n, Len(seq)) + 1, Len(seq))

NotSystem(msg) == ~IsSystem(msg)

\* C11: whenever the count after truncation and dedup exceeds maxMessages,
\* the output is every system message followed by exactly the most recent
\* max(0, maxMessages - systemCount) non-system messages, each group in its
\* original order; with systemCount >= maxMessages no non-system message is
\* kept.
C11_WindowKeepsSystemsAndTail ==
    cpc \in {"once", "twice"} =>
        LET deduped == Dedupe(cMapped)
            maxMessages == Option(cOptions.maxMessages, DefaultMaxMessages)
            system == SelectSeq(deduped, IsSystem)
            nonSystem == SelectSeq(deduped, NotSystem)
        IN  Len(deduped) > maxMessages =>
                /\ cOnce = system \o TakeLast(nonSystem, Max(0, maxMessages - Len(system)))
                /\ Len(system) >= maxMessages => SelectSeq(cOnce, NotSystem) = <<>>

\* The text of a message's content: the string itself, or the texts of its
\* blocks one after the other.
RECURSIVE BlockTexts(_)
BlockTexts(blocks) ==
    IF blocks = <<>> THEN <<>>
    ELSE (IF Head(blocks).k = "obj" /\ Head(blocks).text /= None
          THEN Head(blocks).text[1] ELSE <<>>)
         \o BlockTexts(Tail(blocks))

TextContent(msg) ==
    CASE msg.content.t = "str" -> Some(msg.content.s)
      [] msg.content.t = "arr" -> Some(BlockTexts(msg.content.blocks))
      [] OTHER -> None

\* The messages left when every system message whose text content is that of
\* a system message kept before it is dropped.
RECURSIVE KeepFirstTexts(_, _)
KeepFirstTexts(msgs, keptTexts) ==
    IF msgs = <<>> THEN <<>>
    ELSE LET m == Head(msgs)
         IN  IF IsSystem(m) /\ TextContent(m) \in keptTexts
             THEN KeepFirstTexts(Tail(msgs), keptTexts)
             ELSE <<m>> \o KeepFirstTexts(Tail(msgs),
                                          IF IsSystem(m)
                                          THEN keptTexts \cup {TextContent(m)}
                                          ELSE keptTexts)

\* C12: the dedup step drops a system message if and only if its text
\* content is identical to that of a system message kept before it,
\* adjacent or not, so the first occurrence of each text survives; it
\* removes no non-system message.
C12_DedupDropsRepeatedSystemTexts ==
    cpc \in {"once", "twice"} =>
        /\ Dedupe(cMapped) = KeepFirstTexts(cMapped, {})
        /\ SelectSeq(Dedupe(cMapped), NotSystem) = SelectSeq(cMapped, NotSystem)

\* C13: compactMessages never mutates its input: after it returns, every
\* object that existed before the call (the input array, each message, each
\* content array, each block) has the fields and elements it had, so the
\* input array still holds the same messages in the same order.
C13_InputNotMutated ==
    cpc \in {"once", "twice"} =>
        /\ \A a \in DOMAIN cHeap0 : a \in DOMAIN cHeap /\ cHeap[a] = cHeap0[a]
        /\ LoadMessages(cHeap, cIn) = LoadMessages(cHeap0, cIn)
        /\ cpc = "once" => LoadMessages(cHeap, cIn) = cMessages
        /\ cpc = "twice" => LoadMessages(cHeap, cIn) = cOnce

\* A call that truncated a message, dropped a repeated system message and
\* trimmed the window, and returned one of the input's messages itself.
C13_Witness ==
    /\ cpc = "once"
    /\ \E i \in 1..Len(cMessages) : cMapped[i] /= cMessages[i]
    /\ Len(Dedupe(cMapped)) < Len(cMapped)
    /\ Len(cOnce) < Len(Dedupe(cMapped))
    /\ \E i \in 1..Len(cHeap[cOut].items), j \in 1..Len(cHeap[cIn].items) :
           /\ cHeap[cOut].items[i].k = "obj"
           /\ cHeap[cOut].items[i] = cHeap[cIn].items[j]

(***************************************************************************)
(* Properties of the history turn limiter.                                 *)
(***************************************************************************)
UserPositions(messages) == {i \in 1..Len(messages) : messages[i].role = "user"}

IsSuffix(out, messages) ==
    \E k \in 0..Len(messages) : out = SubSeq(messages, k + 1, Len(messages))

PositiveLimit == fIn.limit /= None /\ fIn.limit[1] > 0

C16_NoLimitReturnsInput ==
    (fpc = "done"
     /\ (fIn.limit = None \/ fIn.limit = Some(0) \/ fIn.messages = <<>>)) =>
        fOut = fIn.messages

\* A limit of zero on a collection with several user messages.
C16_Witness ==
    /\ fpc = "done"
    /\ fIn.limit = Some(0)
    /\ Cardinality(UserPositions(fIn.messages)) >= 2
    /\ fOut = fIn.messages

(***************************************************************************)
(* Properties of the effective history limit.                              *)
(***************************************************************************)
\* The integer an environment text states: Some(n) when the text, white
\* space around it aside, is a decimal integer with an optional sign, None
\* when it is not set, blank or anything else.
StatedCeiling(env) ==
    IF env = None THEN None
    ELSE LET text == TrimUnits(env[1])
             Is(n) == text \in {Decimal(n), <<43>> \o Decimal(n)}
             IsMinus(n) == text = <<45>> \o Decimal(n)
         IN  IF \E n \in 0..(MaxCeiling + 1) : Is(n)
             THEN Some(CHOOSE n \in 0..(MaxCeiling + 1) : Is(n))
             ELSE IF \E n \in 0..(MaxCeiling + 1) : IsMinus(n)
             THEN Some(0 - (CHOOSE n \in 0..(MaxCeiling + 1) : IsMinus(n)))
             ELSE None

\* C17: with a global ceiling set, resolveEffectiveHistoryLimit returns the
\* smaller of the configured limit and the ceiling, never more than the
\* configured limit; with no ceiling set, or a ceiling value that is
\* malformed or not positive, it returns the configured limit unchanged.
C17_CeilingOnlyTightens ==
    fpc = "done" =>
        LET configured == GetHistoryLimitFromSessionKey(fIn.sessionKey, fIn.config)
            ceiling == StatedCeiling(fIn.env)
        IN  /\ (configured /= None /\ ceiling /= None /\ ceiling[1] > 0) =>
                  fOut = Some(Min(configured[1], ceiling[1]))
            /\ configured /= None => (fOut /= None /\ fOut[1] <= configured[1])
            /\ (ceiling = None \/ ceiling[1] <= 0) => fOut = configured

(***************************************************************************)
(* Properties of the message analyzer.                                     *)
(***************************************************************************)
\* The sum of a sequence of numbers, from its last element back.
RECURSIVE SumOf(_)
SumOf(ns) == IF ns = <<>> THEN 0 ELSE SumOf(SubSeq(ns, 1, Len(ns) - 1)) + ns[Len(ns)]

\* The text length of a block and of an entry: that of its text when it has
\* one, 0 for a null, a non-object, an object without content and a block
\* without text.
BlockTextLength(b) == IF b.k = "obj" /\ b.text /= None THEN Len(b.text[1]) ELSE 0

TextLength(msg) ==
    IF msg.k /= "obj" THEN 0
    ELSE IF msg.content.t = "str" THEN Len(msg.content.s)
    ELSE IF msg.content.t = "arr"
         THEN SumOf([i \in 1..Len(msg.content.blocks) |->
                        BlockTextLength(msg.content.blocks[i])])
    ELSE 0

TextLengths(messages) == [i \in 1..Len(messages) |-> TextLength(messages[i])]

\* C18: the analyzer never fails on malformed input: for entries that are
\* null, non-objects, objects without content, or objects whose content
\* holds null or non-text blocks, it returns totals in which each malformed
\* entry or block counts 0 and the others count their text length.
C18_AnalyzerToleratesMalformed ==
    fpc = "done" =>
        /\ ~fOut.threw
        /\ fOut.totalTextChars = SumOf(TextLengths(fIn.messages))

\* C19: for every collection the analyzer gives totals: totalTextChars is
\* the sum of the per-message text lengths and maxMessageTextChars their
\* maximum, so the maximum is at most the total for a non-empty collection
\* and both are 0 for the empty one.
C19_TotalIsSumMaxIsMax ==
    fpc = "done" =>
        LET lengths == TextLengths(fIn.messages)
            each == {lengths[i] : i \in 1..Len(lengths)}
        IN  /\ ~fOut.threw
            /\ fOut.totalTextChars = SumOf(lengths)
            /\ \A n \in each : fOut.maxMessageTextChars >= n
            /\ fOut.maxMessageTextChars \in each \cup {0}
            /\ fIn.messages /= <<>> => fOut.maxMessageTextChars <= fOut.totalTextChars
            /\ fIn.messages = <<>> =>
                  (fOut.totalTextChars = 0 /\ fOut.maxMessageTextChars = 0)

(***************************************************************************)
(* Properties of the token estimate.                                       *)
(***************************************************************************)
\* e is the ceiling of c / 4: the least integer with 4 * e >= c.
IsCeilOfQuarter(e, c) == 4 * e >= c /\ 4 * (e - 1) < c

\* Every event emitted so far: queued in a writer or appended to a file.
EmittedEvents ==
    UNION {{writers[p].queue[i] : i \in 1..Len(writers[p].queue)} : p \in DOMAIN writers}
    \cup UNION {{files[p][i] : i \in 1..Len(files[p])} : p \in DOMAIN files}

MaxEnforcedCeiling == 2
MaxEnforcedLen == 4

EnforcedKeys == {None, Some(JoinColon(<<TG, DM, U1>>))}
EnforcedConfigs ==
    {Some([channels |-> Some([c \in {TG} |-> ProviderEntry(None, dm, None)])]) :
        dm \in {None, Some(0), Some(0 - 1), Some(1), Some(MaxEnforcedLen + 1)}}
EnforcedCeilings == {None} \cup {Some(Decimal(n)) : n \in 1..MaxEnforcedCeiling}
EnforcedInputs ==
    {[i \in 1..n |-> AgentMessage(roles[i], i)] :
        n \in 0..MaxEnforcedLen, roles \in [1..MaxEnforcedLen -> {"user", "assistant"}]}

InitEnforce ==
    /\ LoggerInit
    /\ CompactorInit
    /\ fpc = "input"
    /\ fIn \in [sessionKey : EnforcedKeys, config : EnforcedConfigs,
                env : EnforcedCeilings, messages : EnforcedInputs]
    /\ fOut = <<>>

\* limitTurns(messages, resolveEffectiveHistoryLimit(sessionKey, config))
LimitToEffective ==
    /\ fpc = "input"
    /\ fpc' = "done"
    /\ fOut' = LimitHistoryTurns(fIn.messages,
                   ResolveEffectiveHistoryLimit(fIn.sessionKey, fIn.config, fIn.env))
    /\ UNCHANGED fIn

NextEnforce == LimitToEffective /\ LoggerIdle /\ CompactorIdle

SpecEnforce == InitEnforce /\ [][NextEnforce]_vars

(***************************************************************************)
(* Properties of the enforced ceiling.                                     *)
(***************************************************************************)
\* C21: when a positive global ceiling N is set, the history limited to the
\* effective limit of the session retains at most N user-role messages,
\* whatever the configured limit of the session is: absent, zero, negative
\* or positive.
C21_CeilingEnforcedForEverySession ==
    fpc = "done" =>
        LET ceiling == StatedCeiling(fIn.env)
        IN  (ceiling /= None /\ ceiling[1] > 0) =>
                Cardinality(UserPositions(fOut)) <= ceiling[1]

(***************************************************************************)
(* Properties of the loop detector across session keys.                    *)
(***************************************************************************)
\* The observations of a session key in a sequence of invocations.
KeyHistoryOf(cs, key) ==
    LET OfKey(c) == c.lg.sessionLabel = key /\ c.obs /= None
    IN  SelectSeq(cs, OfKey)

\* C22: an invocation of one session key never creates, changes or resets
\* the tracker entry of a different key, and it returns a warning exactly
\* when it and the two observations of its own key before it have the same
\* shape, however many invocations of other keys came between them.
C22_KeysTrackedIndependently ==
    [][Len(calls') = Len(calls) + 1 =>
          LET c == calls'[Len(calls')]
              own == c.lg.sessionLabel
              h == KeyHistoryOf(calls', own)
          IN  /\ \A key \in SessionLabels \ {own} :
                    /\ (key \in DOMAIN loopTracker') <=> (key \in DOMAIN loopTracker)
                    /\ key \in DOMAIN loopTracker =>
                          loopTracker'[key] = loopTracker[key]
              /\ c.obs /= None =>
                    ((c.warning /= None) <=> LastThreeSame(h, Len(h)))]_vars

\* Three identical invocations of session s1 with invocations of the other
\* session between them: the third warned, and the other session's entry
\* holds the streak of its own two identical invocations.
C22_Witness ==
    /\ Len(calls) = 5
    /\ \A k \in {1, 3, 5} : calls[k].lg.sessionLabel = "s1" /\ calls[k].obs = calls[1].obs
    /\ \A k \in {2, 4} : calls[k].lg.sessionLabel = "unknown" /\ calls[k].obs = calls[1].obs
    /\ calls[3].warning = None
    /\ calls[5].warning /= None
    /\ loopTracker["unknown"].streak = 2
    /\ loopTracker["s1"].streak = LOOP_STREAK_THRESHOLD

(***************************************************************************)
(* The compactor's size bound: compactMessages with caps at least as long  *)
(* as the truncation marker, applied to arrays of up to MaxBoundedLen      *)
(* messages whose content is a text or several blocks.                     *)
(***************************************************************************)
MaxBoundedLen == 2

TwoTexts == Msg("assistant", CArr(<<TextBlock(Text(30)), TextBlock(Text(30))>>))
ToolTexts == Msg("toolResult", CArr(<<TextBlock(Text(60)), ImageBlock, TextBlock(Text(4))>>))

BoundedValues == {SysLong, UserText, UserLong, ToolLong, LongBlocks, TwoTexts, ToolTexts}
BoundedOptionSet ==
    {CompactOptions(n, c, t) : n \in {None, Some(1)},
                               c \in {None, Some(50), Some(Len(TRUNC_SUFFIX))},
                               t \in {None, Some(60), Some(Len(TRUNC_SUFFIX))}}

InitBounded ==
    /\ LoggerInit
    /\ cpc = "input"
    /\ cMessages \in UNION {[1..n -> BoundedValues] : n \in 0..MaxBoundedLen}
    /\ cOptions \in BoundedOptionSet
    /\ cMapped = <<>>
    /\ cOnce = <<>>
    /\ cTwice = <<>>
    /\ cHeap0 = StoreMessages(cMessages)
    /\ cHeap = cHeap0
    /\ cIn = <<0, 0, 0>>
    /\ cOut = <<>>
    /\ CallInit

SpecBounded == InitBounded /\ [][NextCompact]_vars

(***************************************************************************)
(* Properties of the compactor's size bound.                               *)
(***************************************************************************)
\* C23: after compactMessages with caps at least as long as the truncation
\* marker, the total text of every message of the output, summed over its
\* text blocks, is at most maxToolResultChars for a tool-result message
\* (role toolResult, tool or function) and at most maxMessageChars for any
\* other message.
C23_EveryOutputMessageSizeBounded ==
    (/\ cpc \in {"once", "twice"}
     /\ Option(cOptions.maxMessageChars, DefaultMaxMessageChars) >= Len(TRUNC_SUFFIX)
     /\ Option(cOptions.maxToolResultChars, DefaultMaxToolResultChars)
           >= Len(TRUNC_SUFFIX)) =>
        \A i \in 1..Len(cOnce) :
            LET out == cOnce[i]
            IN  out.k = "obj" =>
                    TextLength(out) <=
                        (IF out.role \in {Some("toolResult"), Some("tool"),
                                          Some("function")}
                         THEN Option(cOptions.maxToolResultChars,
                                     DefaultMaxToolResultChars)
                         ELSE Option(cOptions.maxMessageChars, DefaultMaxMessageChars))

(***************************************************************************)
(* The configured history limit: getHistoryLimitFromSessionKey for session *)
(* keys built from their parts (an optional agent prefix, a provider, a    *)
(* conversation kind, a participant, a thread or topic suffix numbered up  *)
(* to MaxThreadNumber), in lower and upper case, and for configurations    *)
(* with and without each limit.                                            *)
(***************************************************************************)
MaxThreadNumber == 10

DM_UPPER == <<68, 77>>
TOPIC_UPPER == <<84, 79, 80, 73, 67>>

NoSuffix == [word |-> <<>>, n |-> 0]
KeySuffixes ==
    {NoSuffix} \cup {[word |-> w, n |-> n] : w \in {THREAD, TOPIC, TOPIC_UPPER},
                                              n \in 0..MaxThreadNumber}

\* How a session key is put together; key is "none" for an undefined key
\* and "empty" for the empty string.
KeyShape(key, agent, provider, kind, user, suffix) ==
    [key |-> key, agent |-> agent, provider |-> provider, kind |-> kind,
     user |-> user, suffix |-> suffix]

KeyShapes ==
    {KeyShape(k, None, TG, None, None, NoSuffix) : k \in {"none", "empty"}}
    \cup {KeyShape("parts", a, p, None, None, NoSuffix) :
             a \in {None, Some(MAIN)}, p \in {TG, TG_UPPER, ABC}}
    \cup {KeyShape("parts", a, p, Some(k), None, NoSuffix) :
             a \in {None, Some(MAIN)}, p \in {TG, TG_UPPER, ABC},
             k \in {DM, DM_UPPER, DIRECT, CHANNEL, GROUP, ABC}}
    \cup {KeyShape("parts", a, p, Some(k), Some(u), x) :
             a \in {None, Some(MAIN)}, p \in {TG, TG_UPPER, ABC},
             k \in {DM, DM_UPPER, DIRECT, CHANNEL, GROUP, ABC},
             u \in {U1, U2}, x \in KeySuffixes}

\* The session key of a shape: its parts joined by colons.
KeyOf(shape) ==
    IF shape.key = "none" THEN None
    ELSE IF shape.key = "empty" THEN Some(<<>>)
    ELSE Some(JoinColon(
             (IF shape.agent = None THEN <<>> ELSE <<AGENT, shape.agent[1]>>)
             \o <<shape.provider>>
             \o shape.kind
             \o shape.user
             \o (IF shape.suffix = NoSuffix THEN <<>>
                 ELSE <<shape.suffix.word, Decimal(shape.suffix.n)>>)))

U1Thread == JoinColon(<<U1, THREAD, Decimal(7)>>)
TgOverrides ==
    ProviderEntry(Some(20), Some(50),
                  Some([u \in {U1, U2} |->
                           [historyLimit |-> IF u = U1 THEN Some(0) ELSE None]]))
TgThreadOverride ==
    ProviderEntry(Some(20), Some(50), Some([u \in {U1Thread} |-> [historyLimit |-> Some(9)]]))
KeyConfigs ==
    {None, Some([channels |-> None])}
    \cup {Some([channels |-> Some([c \in {TG} |-> entry])]) :
             entry \in {TgLimits, TgOverrides, TgThreadOverride, NotAnEntry,
                        ProviderEntry(None, None, None)}}

InitKey ==
    /\ LoggerInit
    /\ CompactorInit
    /\ fpc = "input"
    /\ fIn \in {[sessionKey |-> KeyOf(shape), config |-> config, shape |-> shape] :
                   shape \in KeyShapes, config \in KeyConfigs}
    /\ fOut = <<>>

GetLimit ==
    /\ fpc = "input"
    /\ fpc' = "done"
    /\ fOut' = GetHistoryLimitFromSessionKey(fIn.sessionKey, fIn.config)
    /\ UNCHANGED fIn

NextKey == GetLimit /\ LoggerIdle /\ CompactorIdle

SpecKey == InitKey /\ [][NextKey]_vars

(***************************************************************************)
(* Properties of the configured history limit.                             *)
(***************************************************************************)
\* The limit the parts of a session key select in a configuration: that of
\* the provider's entry for the conversation kind, None when the key or the
\* configuration is missing, the provider has no entry, or the kind is
\* neither direct nor channel or group.
ConfiguredFor(shape, config) ==
    LET provider == IF shape.provider = TG_UPPER THEN TG ELSE shape.provider
        kind == IF shape.kind = Some(DM_UPPER) THEN Some(DM) ELSE shape.kind
        Known == /\ config[1].channels /= None
                 /\ provider \in DOMAIN config[1].channels[1]
                 /\ config[1].channels[1][provider].k = "obj"
        entry == config[1].channels[1][provider]
        Overridden == /\ shape.user /= None
                      /\ entry.dms /= None
                      /\ shape.user[1] \in DOMAIN entry.dms[1]
                      /\ entry.dms[1][shape.user[1]].historyLimit /= None
    IN  IF shape.key /= "parts" \/ config = None THEN None
        ELSE IF ~Known THEN None
        ELSE IF kind \in {Some(DM), Some(DIRECT)}
             THEN IF Overridden THEN entry.dms[1][shape.user[1]].historyLimit
                  ELSE entry.dmHistoryLimit
        ELSE IF kind \in {Some(CHANNEL), Some(GROUP)} THEN entry.historyLimit
        ELSE None

\* The same key with the kind dm for direct and direct for dm.
OtherDirectKind(shape) ==
    [shape EXCEPT !.kind = IF @ = Some(DIRECT) THEN Some(DM) ELSE Some(DIRECT)]

\* C24: getHistoryLimitFromSessionKey returns, for the conversation kind in
\* the session key read after an optional agent:<id>: prefix: for dm or
\* direct the override of the participant, whose identifier is taken
\* without a trailing :thread:<n> or :topic:<n>, when one is defined and
\* the provider's direct-message default otherwise; for channel or group
\* the provider's channel limit; the same value for dm as for direct; and
\* no limit for a missing key, a missing configuration, an unknown provider
\* and any other kind.
C24_LimitResolvedByConversationKind ==
    fpc = "done" =>
        /\ fOut = ConfiguredFor(fIn.shape, fIn.config)
        /\ fIn.shape.kind \in {Some(DM), Some(DM_UPPER), Some(DIRECT)} =>
              fOut = GetHistoryLimitFromSessionKey(KeyOf(OtherDirectKind(fIn.shape)),
                                                   fIn.config)

\* The key agent:main:tg:direct:u1:thread:7 resolved to the override of u1,
\* with a configuration whose default for direct messages is another value.
C24_Witness ==
    /\ fpc = "done"
    /\ fIn.sessionKey = Some(JoinColon(<<AGENT, MAIN, TG, DIRECT, U1, THREAD, Decimal(7)>>))
    /\ fIn.config = Some([channels |-> Some([c \in {TG} |-> TgLimits])])
    /\ fOut = Some(5)

(***************************************************************************)
(* The order of a call's effects: a session whose wrapped function is      *)
(* invoked with well-formed and malformed contexts, whose host records the *)
(* usage of the calls, and whose writer drains.                            *)
(***************************************************************************)
MaxOrderOps == 3

OrderContexts == {Context(MArr(<<UserText>>)), Context(MArr(<<UserText, NullMsg>>))}

NextOrder ==
    \/ RoomForLogger(LoopEnv, EstimateParams)
       /\ CreateLlmUsageLogger(LoopEnv, EstimateParams)
       /\ CompactorIdle /\ CallIdle
    \/ \E lg \in loggers, context \in OrderContexts, fnOut \in FnOuts :
           Len(issued) < MaxOrderOps /\ Wrapped(lg, CallArgs(context), fnOut)
           /\ CompactorIdle /\ CallIdle
    \/ \E lg \in loggers :
           Len(issued) < MaxOrderOps
           /\ RecordUsage(lg, MArr(<<UserText>>), SomeUsage, NoError)
           /\ CompactorIdle /\ CallIdle
    \/ \E c \in 1..Len(calls), outcome \in Outcomes :
           Len(issued) < MaxOrderOps /\ HostCompletes(c, outcome, SomeUsage)
           /\ CompactorIdle /\ CallIdle
    \/ \E p \in FilePaths : Drain(p) /\ CompactorIdle /\ CallIdle

SpecOrder == Init /\ [][NextOrder]_vars

(***************************************************************************)
(* Properties of the order of a call's effects.                            *)
(***************************************************************************)
\* The log of a file: the lines appended to it, then the lines queued for it.
Log(p) == FileLines(p) \o (IF p \in DOMAIN writers THEN writers[p].queue ELSE <<>>)

\* C25: when a wrapped function invokes the stream function, the loop
\* tracker already holds the observation of this call and the call's input
\* or loop_break event is already the last line queued; so in the log the
\* event of the call precedes every usage event recorded after it.
C25_EventBeforeStreamFn ==
    \A k \in 1..Len(calls) :
        LET c == calls[k]
            label == c.lg.sessionLabel
            path == c.lg.filePath
            h == KeyHistoryOf(SubSeq(calls, 1, k), label)
            log == Log(path)
        IN  c.fnArgs /= <<>> =>
                /\ c.atFn /= None
                /\ c.atFn[1].entry /= None
                /\ <<c.atFn[1].entry[1].messageCount,
                     c.atFn[1].entry[1].totalChars>> = c.obs[1]
                /\ c.atFn[1].entry[1].streak = RunLength(h, Len(h))
                /\ c.atFn[1].queued = Some(c.lines[1])
                /\ c.lines[1].stage \in {"input", "loop_break"}
                /\ \E i \in 1..Len(log) :
                       /\ log[i] = c.lines[1]
                       /\ \A j \in 1..Len(log) :
                              (log[j].stage = "usage" /\ log[j].ts >= c.lines[1].ts)
                                  => j > i

\* A call whose usage the host recorded after it completed: its input event
\* and then its usage event are in the file, and its observation was the
\* second of its session when the stream function was invoked.
C25_Witness ==
    \E k \in 1..Len(calls) :
        LET c == calls[k]
            lines == FileLines(c.lg.filePath)
        IN  /\ c.status = "ok"
            /\ c.usageLines /= <<>>
            /\ c.atFn[1].entry[1].streak = 2
            /\ \E i, j \in 1..Len(lines) :
                   i < j /\ lines[i] = c.lines[1] /\ lines[j] = c.usageLines[1]

(***************************************************************************)
(* Logger instances of the same session: instances created with a session  *)
(* key and a session id, with a session id only and with neither, writing  *)
(* to the default file or to another one, each invoking its wrapped        *)
(* function.                                                               *)
(***************************************************************************)
MaxSharedCalls == 3

SharedEnvs == {Env(Some("1"), None), Env(Some("1"), Some(" /a "))}
SharedParams == {Params(Some("s1"), Some("id1")), Params(None, Some("s1")),
                 Params(None, None)}
SharedContexts == {Context(MArr(<<>>)), Context(MArr(<<UserText>>))}

NextShared ==
    \/ \E env \in SharedEnvs, params \in SharedParams :
           RoomForLogger(env, params) /\ CreateLlmUsageLogger(env, params)
           /\ CompactorIdle /\ CallIdle
    \/ \E lg \in loggers, context \in SharedContexts :
           Len(calls) < MaxSharedCalls /\ Wrapped(lg, CallArgs(context), "stream")
           /\ CompactorIdle /\ CallIdle

SpecShared == Init /\ [][NextShared]_vars

(***************************************************************************)
(* Properties of logger instances of the same session.                     *)
(***************************************************************************)
\* The session of an identity: its sessionKey, else its sessionId, else
\* "unknown".
SessionOf(identity) ==
    IF identity.sessionKey /= None THEN identity.sessionKey[1]
    ELSE IF identity.sessionId /= None THEN identity.sessionId[1]
    ELSE "unknown"

\* The observations of every instance created for a session, oldest first.
SessionHistory(session) ==
    LET OfSession(c) == SessionOf(c.lg.base) = session /\ c.obs /= None
    IN  SelectSeq(calls, OfSession)

\* C26: the loop tracker holds one entry per session, whichever and however
\* many logger instances were created for it: the streak of a session counts
\* the latest identical observations of all its instances together, and an
\* observation warns when it and the session's two observations before it,
\* by any instances, have the same shape.  Instances created without any
\* session identity are the session "unknown".
C26_InstancesShareSessionStreak ==
    /\ DOMAIN loopTracker \subseteq {SessionOf(params) : params \in SharedParams}
    /\ \A session \in {SessionOf(params) : params \in SharedParams} :
           LET h == SessionHistory(session)
           IN  /\ (session \in DOMAIN loopTracker) <=> (Len(h) > 0)
               /\ Len(h) > 0 => loopTracker[session].streak = RunLength(h, Len(h))
               /\ \A n \in 1..Len(h) : (h[n].warning /= None) <=> LastThreeSame(h, n)

\* Two identical observations by one instance and a third by another
\* instance of the same session, the first call of that instance: it
\* continued the streak of the session and warned.
C26_Witness ==
    /\ Len(calls) = 3
    /\ calls[1].lg = calls[2].lg
    /\ calls[3].lg /= calls[1].lg
    /\ SessionOf(calls[1].lg.base) = SessionOf(calls[3].lg.base)
    /\ calls[2].warning = None
    /\ calls[3].warning /= None
    /\ loopTracker[SessionOf(calls[3].lg.base)].streak = LOOP_STREAK_THRESHOLD

(***************************************************************************)
(* recordUsage among wrapped calls: two sessions whose wrapped functions   *)
(* are invoked with one context, and whose recordUsage is called with      *)
(* messages of the same shape, of another shape and with a null entry.     *)
(* The writer's drains neither read nor change the tracker, and are left   *)
(* out.                                                                    *)
(***************************************************************************)
MaxFrameOps == 4

FrameContext == Context(MArr(<<UserText>>))
FrameMessages == {MArr(<<UserText>>), MArr(<<>>), MArr(<<UserText, NullMsg>>), MNotArr}

NextFrame ==
    \/ \E params \in LoopParams :
           RoomForLogger(LoopEnv, params) /\ CreateLlmUsageLogger(LoopEnv, params)
           /\ CompactorIdle /\ CallIdle
    \/ \E lg \in loggers :
           Len(issued) < MaxFrameOps /\ Wrapped(lg, CallArgs(FrameContext), "stream")
           /\ CompactorIdle /\ CallIdle
    \/ \E lg \in loggers, messages \in FrameMessages :
           Len(issued) < MaxFrameOps /\ RecordUsage(lg, messages, SomeUsage, NoError)
           /\ CompactorIdle /\ CallIdle

SpecFrame == Init /\ [][NextFrame]_vars

(***************************************************************************)
(* Properties of recordUsage among wrapped calls.                          *)
(***************************************************************************)
\* C27: a call of recordUsage, whatever its messages, leaves the loop
\* tracker as it was, the entry of every session with its streak, and the
\* event it writes has the stage usage and no loopWarning.
C27_RecordUsageLeavesTracker ==
    [][(last'.op = "usage" /\ Len(issued') = Len(issued) + 1) =>
          /\ loopTracker' = loopTracker
          /\ \A i \in 1..Len(last'.lines) :
                 /\ last'.lines[i].stage = "usage"
                 /\ "loopWarning" \notin DOMAIN last'.lines[i]]_vars

\* recordUsage has just been called, with messages of another shape than
\* the two identical wrapped calls of its session before it, and the
\* streak of the session is still 2.
C27_Witness ==
    /\ last.op = "usage"
    /\ last.messages = MArr(<<>>)
    /\ last.lines /= <<>>
    /\ Len(calls) = 2
    /\ \A k \in 1..2 : calls[k].lg = last.lg /\ calls[k].obs /= Some(<<0, 0>>)
    /\ loopTracker[last.lg.sessionLabel].streak = 2
    /\ loopTracker[last.lg.sessionLabel].messageCount = 1

====
